---- MODULE Spec2Model ----
(***************************************************************************)
(* Votilio: voting-key issuance and redemption, ballot recording.          *)
(* The state is the relational store (elections, positions, candidates,    *)
(* invitations, votes, the system-settings row), the voters' cookie        *)
(* sessions, the clock and the submit_ballot requests in flight.           *)
(***************************************************************************)
EXTENDS Integers, Sequences, FiniteSets, TLC

VARIABLES
    elections,    \* Election rows: id -> [access_code, is_active, start_time, end_time]
    positions,    \* Position rows: id -> [election_id, order_index]
    candidates,   \* Candidate rows: id -> [position_id]
    admins,       \* AdminUser rows: id -> [username, is_super_admin]
    invitations,  \* VoterInvitation rows: id -> record (see NewInvitation)
    nextInvId,    \* the voter_invitation id sequence
    votes,        \* Vote rows in insertion (id) order
    settingsRow,  \* TRUE when the SystemSettings row exists
    now,          \* datetime.utcnow()
    session,      \* the cookie session of each browser
    req,          \* submit_ballot requests in flight (interleaved runs)
    ballots       \* history: accepted ballots, [invitation_id, election_id, key] -> count

vars == <<elections, positions, candidates, admins, invitations, nextInvId, votes,
          settingsRow, now, session, req, ballots>>

\* the rows no invitation or voter request writes
setupVars == <<positions, candidates, admins>>

-----------------------------------------------------------------------------
(* Bounds of the model *)

NumKeys == 3        \* how many values random.randint can draw
MaxInv == 2         \* invitation rows ever inserted
MaxNow == 2         \* the clock runs 0..MaxNow
NumSessions == 2    \* browsers
NumReqs == 2        \* concurrent submit_ballot requests
MaxBatch == 2       \* rows in one bulk upload
MaxInvMulti == 1    \* invitation rows inserted while several browsers vote

(* None of a nullable column *)
NoId == 0
NoTime == 0 - 1
NoStr == << >>

-----------------------------------------------------------------------------
(* Strings are sequences of characters *)

LowerChar(c) ==
    CASE c = "A" -> "a"
      [] c = "B" -> "b"
      [] c = "E" -> "e"
      [] c = "X" -> "x"
      [] OTHER -> c

\* str.lower()
Lower(s) == [i \in DOMAIN s |-> LowerChar(s[i])]

RECURSIVE StripLeft(_)
StripLeft(s) ==
    IF s # << >> /\ Head(s) = " " THEN StripLeft(Tail(s)) ELSE s

RECURSIVE StripRight(_)
StripRight(s) ==
    IF s # << >> /\ s[Len(s)] = " " THEN StripRight(SubSeq(s, 1, Len(s) - 1)) ELSE s

\* str.strip()
Strip(s) == StripRight(StripLeft(s))

Digits == <<"0", "1", "2", "3", "4", "5", "6", "7", "8", "9">>

RECURSIVE Pow10(_)
Pow10(n) == IF n = 0 THEN 1 ELSE 10 * Pow10(n - 1)

\* f"{n}": the decimal digits of n without padding
RECURSIVE FormatD(_)
FormatD(n) == IF n < 10 THEN <<Digits[n + 1]>> ELSE FormatD(n \div 10) \o <<Digits[(n % 10) + 1]>>

\* f"{n:06d}"
Format06d(n) ==
    IF n < Pow10(6)
    THEN [i \in 1..6 |-> Digits[((n \div Pow10(6 - i)) % 10) + 1]]
    ELSE [i \in 1..7 |-> Digits[((n \div Pow10(7 - i)) % 10) + 1]]

\* the values random.randint(0, 999999) draws in the model
RandSamples == <<0, 999999, 42913, 100000, 7, 500>>
RandInts == {RandSamples[j] : j \in 1..NumKeys}

\* generate_6_digit_code(): the set of its possible results
generate_6_digit_code == {Format06d(n) : n \in RandInts}

\* werkzeug generate_password_hash: one-way, the digest is a function of the
\* plaintext; check_password_hash recomputes it
generate_password_hash(raw) == [method |-> "pbkdf2", digest |-> raw]
check_password_hash(h, raw) == h = generate_password_hash(raw)

-----------------------------------------------------------------------------
(* models.py *)

\* VoterInvitation.set_key
set_key(inv, raw_key) == [inv EXCEPT !.voting_key_hash = generate_password_hash(raw_key)]

\* VoterInvitation.check_key
check_key(inv, raw_key) == check_password_hash(inv.voting_key_hash, raw_key)

\* a window that is already shut at its last instant
is_open_before_end(election, t) ==
    IF ~election.is_active THEN FALSE
    ELSE IF election.start_time # NoTime /\ t < election.start_time THEN FALSE
    ELSE IF election.end_time # NoTime /\ t >= election.end_time THEN FALSE
    ELSE TRUE

\* Election.is_open at time t
is_open(election, t) ==
    IF ~election.is_active THEN FALSE
    ELSE IF election.start_time # NoTime /\ t < election.start_time THEN FALSE
    ELSE IF election.end_time # NoTime /\ t > election.end_time THEN FALSE
    ELSE TRUE

\* a fresh VoterInvitation(election_id, email, name) with the column defaults
NewInvitation(election_id, name, email) ==
    [election_id |-> election_id, name |-> name, email |-> email,
     voting_key_hash |-> generate_password_hash(NoStr),
     sent_at |-> NoTime, used |-> FALSE, used_at |-> NoTime,
     reminder_sent_at |-> NoTime, last_generated_key |-> NoStr]

\* a Vote row that also names the invitation it came from
NewVoteOfInvitation(election_id, position_id, candidate_id, cast_at) ==
    [election_id |-> election_id, position_id |-> position_id,
     candidate_id |-> candidate_id, cast_at |-> cast_at, invitation_id |-> NoId]

\* a Vote row: the columns of the Vote model
NewVote(election_id, position_id, candidate_id, cast_at) ==
    [election_id |-> election_id, position_id |-> position_id,
     candidate_id |-> candidate_id, cast_at |-> cast_at]

Min(S) == CHOOSE x \in S : \A y \in S : x <= y

\* ids of a set in ascending order
RECURSIVE Ascending(_)
Ascending(S) == IF S = {} THEN << >> ELSE <<Min(S)>> \o Ascending(S \ {Min(S)})

InvitationsOf(invs, election_id) ==
    {i \in DOMAIN invs : invs[i].election_id = election_id}

-----------------------------------------------------------------------------
(* admin/routes.py: key issuance *)

\* a generator that avoids only the reserved keys
generate_unreserved_key(invs, election_id, reserved) ==
    {candidate_key \in generate_6_digit_code : candidate_key \notin reserved}

\* _generate_unique_key(election, reserved): the keys the loop can return.
\* invs is what the ORM session shows (committed rows plus the request's own
\* pending changes).
_generate_unique_key(invs, election_id, reserved) ==
    {candidate_key \in generate_6_digit_code :
        /\ candidate_key \notin reserved
        /\ \A i \in InvitationsOf(invs, election_id) : ~check_key(invs[i], candidate_key)}

\* invitation.set_key(new_key); invitation.last_generated_key = new_key
IssueKey(inv, new_key) ==
    [set_key(inv, new_key) EXCEPT !.last_generated_key = new_key]

-----------------------------------------------------------------------------
(* public/routes.py: the voter flow *)

\* a lookup by code alone, active or not
find_election_ignoring_active(code) ==
    LET normalized == Strip(code)
        found == {e \in DOMAIN elections :
                    Lower(elections[e].access_code) = Lower(normalized)}
    IN  IF normalized = NoStr \/ found = {} THEN NoId ELSE Min(found)

\* a lookup that compares the code as typed
find_election_exact_case(code) ==
    LET normalized == Strip(code)
        found == {e \in DOMAIN elections :
                    /\ elections[e].access_code = normalized
                    /\ elections[e].is_active}
    IN  IF normalized = NoStr \/ found = {} THEN NoId ELSE Min(found)

\* _find_election_by_code: the first active election whose code matches
\* case-insensitively, NoId when there is none
_find_election_by_code(code) ==
    LET normalized == Strip(code)
        found == {e \in DOMAIN elections :
                    /\ Lower(elections[e].access_code) = Lower(normalized)
                    /\ elections[e].is_active}
    IN  IF normalized = NoStr \/ found = {} THEN NoId ELSE Min(found)

\* a scan that does not skip used invitations
find_invitation_any(election_id, raw_key) ==
    LET found == {i \in InvitationsOf(invitations, election_id) :
                    check_key(invitations[i], raw_key)}
    IN  IF found = {} THEN NoId ELSE Min(found)

\* a scan over the unused invitations of every election
find_invitation_of_any_election(election_id, raw_key) ==
    LET found == {i \in DOMAIN invitations :
                    ~invitations[i].used /\ check_key(invitations[i], raw_key)}
    IN  IF found = {} THEN NoId ELSE Min(found)

\* _find_invitation: the first unused invitation of the election whose hash
\* matches the key, NoId when there is none
_find_invitation(election_id, raw_key) ==
    LET found == {i \in InvitationsOf(invitations, election_id) :
                    ~invitations[i].used /\ check_key(invitations[i], raw_key)}
    IN  IF found = {} THEN NoId ELSE Min(found)

EmptySession == [election_id |-> NoId, invitation_id |-> NoId, voter_name |-> NoStr]

VoterLabel == <<"V", "o", "t", "e", "r">>

\* invitation.name or invitation.email or 'Voter'
voter_name_of(inv) ==
    IF inv.name # NoStr THEN inv.name
    ELSE IF inv.email # NoStr THEN inv.email
    ELSE VoterLabel

\* a verification that looks at the voting window before the key
VerifyOutcomeWindowFirst(election_code_in, voting_key_in) ==
    LET election_code == Strip(election_code_in)
        voting_key == Strip(voting_key_in)
        election_id == _find_election_by_code(election_code)
        invitation_id == IF election_id = NoId THEN NoId
                         ELSE _find_invitation(election_id, voting_key)
    IN  IF election_code = NoStr \/ voting_key = NoStr
        THEN [status |-> "Required", election_id |-> NoId, invitation_id |-> NoId]
        ELSE IF election_id = NoId
        THEN [status |-> "ElectionNotFound", election_id |-> NoId, invitation_id |-> NoId]
        ELSE IF ~is_open(elections[election_id], now)
        THEN [status |-> "ElectionClosed", election_id |-> election_id,
              invitation_id |-> invitation_id]
        ELSE IF invitation_id = NoId
        THEN [status |-> "InvalidKey", election_id |-> election_id, invitation_id |-> NoId]
        ELSE [status |-> "ok", election_id |-> election_id, invitation_id |-> invitation_id]

\* the outcome of POST / with the form (election_code, voting_key):
\* [status, election_id, invitation_id]
VerifyOutcome(election_code_in, voting_key_in) ==
    LET election_code == Strip(election_code_in)
        voting_key == Strip(voting_key_in)
        election_id == _find_election_by_code(election_code)
        invitation_id == IF election_id = NoId THEN NoId
                         ELSE _find_invitation(election_id, voting_key)
    IN  IF election_code = NoStr \/ voting_key = NoStr
        THEN [status |-> "Required", election_id |-> NoId, invitation_id |-> NoId]
        ELSE IF election_id = NoId
        THEN [status |-> "ElectionNotFound", election_id |-> NoId, invitation_id |-> NoId]
        ELSE IF invitation_id = NoId
        THEN [status |-> "InvalidKey", election_id |-> election_id, invitation_id |-> NoId]
        ELSE IF ~is_open(elections[election_id], now)
        THEN [status |-> "ElectionClosed", election_id |-> election_id,
              invitation_id |-> invitation_id]
        ELSE [status |-> "ok", election_id |-> election_id, invitation_id |-> invitation_id]

\* a verification that spends the key: the invitation is marked used at once
vote_consuming_key(s, election_code_in, voting_key_in) ==
    LET out == VerifyOutcome(election_code_in, voting_key_in) IN
    /\ session' = IF out.status = "ok"
                  THEN [session EXCEPT ![s] =
                          [election_id |-> out.election_id,
                           invitation_id |-> out.invitation_id,
                           voter_name |-> voter_name_of(invitations[out.invitation_id])]]
                  ELSE session
    /\ invitations' = IF out.status = "ok"
                      THEN [invitations EXCEPT ![out.invitation_id].used = TRUE,
                                               ![out.invitation_id].used_at = now]
                      ELSE invitations
    /\ UNCHANGED <<setupVars, elections, nextInvId, votes, settingsRow, now, req, ballots>>

\* vote(): POST / from browser s
vote(s, election_code_in, voting_key_in) ==
    LET out == VerifyOutcome(election_code_in, voting_key_in) IN
    /\ session' = IF out.status = "ok"
                  THEN [session EXCEPT ![s] =
                          [election_id |-> out.election_id,
                           invitation_id |-> out.invitation_id,
                           voter_name |-> voter_name_of(invitations[out.invitation_id])]]
                  ELSE session
    /\ UNCHANGED <<setupVars, elections, invitations, nextInvId, votes, settingsRow, now, req, ballots>>

\* positions of an election in order_index order (ties by id)
RECURSIVE SortedPositions(_)
SortedPositions(P) ==
    IF P = {} THEN << >>
    ELSE LET first == CHOOSE p \in P : \A q \in P :
                        \/ positions[p].order_index < positions[q].order_index
                        \/ (positions[p].order_index = positions[q].order_index /\ p <= q)
         IN  <<first>> \o SortedPositions(P \ {first})

PositionsOf(election_id) == {p \in DOMAIN positions : positions[p].election_id = election_id}

\* the rows of a form taken as it comes, without looking the candidate up
RECURSIVE BallotRowsUnchecked(_, _, _, _)
BallotRowsUnchecked(election_id, todo, form, t) ==
    IF todo = << >> THEN << >>
    ELSE LET position_id == Head(todo)
             selected_candidate == IF position_id \in DOMAIN form THEN form[position_id] ELSE NoId
             rest == BallotRowsUnchecked(election_id, Tail(todo), form, t)
         IN  IF selected_candidate = NoId THEN rest
             ELSE <<NewVote(election_id, position_id, selected_candidate, t)>> \o rest

\* Vote rows for every selected candidate that exists, of whatever position
RECURSIVE BallotRowsAnyPosition(_, _, _, _)
BallotRowsAnyPosition(election_id, todo, form, t) ==
    IF todo = << >> THEN << >>
    ELSE LET position_id == Head(todo)
             selected_candidate == IF position_id \in DOMAIN form THEN form[position_id] ELSE NoId
             rest == BallotRowsAnyPosition(election_id, Tail(todo), form, t)
         IN  IF selected_candidate = NoId THEN rest
             ELSE IF selected_candidate \notin DOMAIN candidates THEN rest
             ELSE <<NewVote(election_id, position_id, selected_candidate, t)>> \o rest

\* the Vote rows submit_ballot adds for a form (position id -> selected candidate id)
RECURSIVE BallotRows(_, _, _, _)
BallotRows(election_id, todo, form, t) ==
    IF todo = << >> THEN << >>
    ELSE LET position_id == Head(todo)
             selected_candidate == IF position_id \in DOMAIN form THEN form[position_id] ELSE NoId
             rest == BallotRows(election_id, Tail(todo), form, t)
         IN  IF selected_candidate = NoId THEN rest
             ELSE IF ~(selected_candidate \in DOMAIN candidates
                       /\ candidates[selected_candidate].position_id = position_id) THEN rest
             ELSE <<NewVote(election_id, position_id, selected_candidate, t)>> \o rest

\* the checks without the one on invitation.used
SubmitCheckIgnoringUsed(sess) ==
    IF sess.election_id = NoId \/ sess.invitation_id = NoId THEN "SessionExpired"
    ELSE IF sess.election_id \notin DOMAIN elections THEN "NotFound"
    ELSE IF sess.invitation_id \notin DOMAIN invitations THEN "NotFound"
    ELSE IF ~is_open(elections[sess.election_id], now) THEN "ElectionClosed"
    ELSE IF invitations[sess.invitation_id].election_id # sess.election_id THEN "SessionMismatch"
    ELSE "ok"

\* the checks without the one on election.is_open()
SubmitCheckIgnoringWindow(sess) ==
    IF sess.election_id = NoId \/ sess.invitation_id = NoId THEN "SessionExpired"
    ELSE IF sess.election_id \notin DOMAIN elections THEN "NotFound"
    ELSE IF sess.invitation_id \notin DOMAIN invitations THEN "NotFound"
    ELSE IF invitations[sess.invitation_id].election_id # sess.election_id THEN "SessionMismatch"
    ELSE IF invitations[sess.invitation_id].used THEN "AlreadyVoted"
    ELSE "ok"

\* the checks with the one on invitation.used ahead of the others
SubmitCheckUsedFirst(sess) ==
    IF sess.election_id = NoId \/ sess.invitation_id = NoId THEN "SessionExpired"
    ELSE IF sess.election_id \notin DOMAIN elections THEN "NotFound"
    ELSE IF sess.invitation_id \notin DOMAIN invitations THEN "NotFound"
    ELSE IF invitations[sess.invitation_id].used THEN "AlreadyVoted"
    ELSE IF ~is_open(elections[sess.election_id], now) THEN "ElectionClosed"
    ELSE IF invitations[sess.invitation_id].election_id # sess.election_id THEN "SessionMismatch"
    ELSE "ok"

\* the checks that trust what the session holds: the invitation row is looked
\* up but neither its election nor its used flag is compared
SubmitCheckTrustingSession(sess) ==
    IF sess.election_id = NoId \/ sess.invitation_id = NoId THEN "SessionExpired"
    ELSE IF sess.election_id \notin DOMAIN elections THEN "NotFound"
    ELSE IF sess.invitation_id \notin DOMAIN invitations THEN "NotFound"
    ELSE IF ~is_open(elections[sess.election_id], now) THEN "ElectionClosed"
    ELSE "ok"

\* the precondition checks of submit_ballot, in the order of the code
SubmitCheck(sess) ==
    IF sess.election_id = NoId \/ sess.invitation_id = NoId THEN "SessionExpired"
    ELSE IF sess.election_id \notin DOMAIN elections THEN "NotFound"
    ELSE IF sess.invitation_id \notin DOMAIN invitations THEN "NotFound"
    ELSE IF ~is_open(elections[sess.election_id], now) THEN "ElectionClosed"
    ELSE IF invitations[sess.invitation_id].election_id # sess.election_id THEN "SessionMismatch"
    ELSE IF invitations[sess.invitation_id].used THEN "AlreadyVoted"
    ELSE "ok"

\* history: one more accepted ballot of the invitation, with the plaintext its
\* hash accepts at that moment
AcceptBallot(b, invitation_id) ==
    LET inv == invitations[invitation_id]
        rec == [invitation_id |-> invitation_id, election_id |-> inv.election_id,
                key |-> inv.voting_key_hash.digest]
    IN  IF rec \in DOMAIN b THEN [b EXCEPT ![rec] = @ + 1] ELSE b @@ (rec :> 1)

\* invitation.used_at = utcnow(), without the used flag
MarkUsedAtOnly(inv, t) == [inv EXCEPT !.used_at = t]

\* invitation.used = True; invitation.used_at = utcnow()
MarkUsed(inv, t) == [inv EXCEPT !.used = TRUE, !.used_at = t]

\* what can happen to the store during a request: nothing, a failure before
\* the ballot's commit completes, a failure of record_audit's own commit
StorageOutcomes == {"ok", "CommitFails", "AuditFails"}

\* a submit_ballot whose Vote rows also carry the invitation they came from
submit_ballot_signed(s, form, storage) ==
    LET sess == session[s]
        status == SubmitCheck(sess)
        rows == BallotRows(sess.election_id, SortedPositions(PositionsOf(sess.election_id)),
                           form, now)
        signed == [n \in DOMAIN rows |->
                     [election_id |-> rows[n].election_id, position_id |-> rows[n].position_id,
                      candidate_id |-> rows[n].candidate_id, cast_at |-> rows[n].cast_at,
                      invitation_id |-> sess.invitation_id]]
    IN
    /\ IF status # "ok"
       THEN /\ UNCHANGED <<votes, invitations, session, ballots>>
       ELSE IF storage = "CommitFails"
       THEN /\ UNCHANGED <<votes, invitations, session, ballots>>
       ELSE /\ votes' = votes \o signed
            /\ invitations' = [invitations EXCEPT
                                 ![sess.invitation_id] = MarkUsed(@, now)]
            /\ ballots' = AcceptBallot(ballots, sess.invitation_id)
            /\ session' = IF storage = "AuditFails" THEN session
                          ELSE [session EXCEPT ![s] = EmptySession]
    /\ UNCHANGED <<setupVars, elections, nextInvId, settingsRow, now, req>>

\* submit_ballot() run as one atomic request from browser s. When the ballot's
\* commit fails the teardown rolls back; when record_audit fails after it, the
\* request ends in an error with the ballot committed and the session kept.
submit_ballot(s, form, storage) ==
    LET sess == session[s]
        status == SubmitCheck(sess)
        rows == BallotRows(sess.election_id, SortedPositions(PositionsOf(sess.election_id)),
                           form, now)
    IN
    /\ IF status # "ok"
       THEN \* flash and redirect to the key page
            /\ UNCHANGED <<votes, invitations, session, ballots>>
       ELSE IF storage = "CommitFails"
       THEN \* nothing of the transaction is stored, the session cookie is kept
            /\ UNCHANGED <<votes, invitations, session, ballots>>
       ELSE /\ votes' = votes \o rows
            /\ invitations' = [invitations EXCEPT
                                 ![sess.invitation_id] = MarkUsed(@, now)]
            /\ ballots' = AcceptBallot(ballots, sess.invitation_id)
            /\ session' = IF storage = "AuditFails" THEN session
                          ELSE [session EXCEPT ![s] = EmptySession]
    /\ UNCHANGED <<setupVars, elections, nextInvId, settingsRow, now, req>>

-----------------------------------------------------------------------------
(* admin/routes.py: invitations *)

\* a check that compares the stored email as it was typed
EmailTakenExactCase(invs, election_id, email_key, except) ==
    \E i \in InvitationsOf(invs, election_id) :
        i # except /\ invs[i].email # NoStr /\ invs[i].email = email_key

\* an invitation of the election with that lower-cased email, other than `except`
EmailTaken(invs, election_id, email_key, except) ==
    \E i \in InvitationsOf(invs, election_id) :
        i # except /\ invs[i].email # NoStr /\ Lower(invs[i].email) = email_key

\* the loop of manage_invitations over pending_rows: the set of possible
\* results [invs, nid, created], one per choice of the generated keys
RECURSIVE BulkCreate(_, _, _, _, _, _)
BulkCreate(invs, nid, created, election_id, pending_rows, seen_local) ==
    IF pending_rows = << >> THEN {[invs |-> invs, nid |-> nid, created |-> created]}
    ELSE LET email == Strip(Head(pending_rows).email)
             name == Head(pending_rows).name
             key == Lower(email)
             rest == Tail(pending_rows)
         IN  IF key \in seen_local
             THEN BulkCreate(invs, nid, created, election_id, rest, seen_local)
             ELSE IF EmailTaken(invs, election_id, key, NoId)
             THEN BulkCreate(invs, nid, created, election_id, rest, seen_local \cup {key})
             ELSE UNION {
                    BulkCreate(invs @@ (nid :> IssueKey(NewInvitation(election_id, name, email), new_key)),
                               nid + 1, created + 1, election_id, rest, seen_local \cup {key})
                    : new_key \in _generate_unique_key(invs, election_id, {})}

\* manage_invitations(): POST of the bulk upload with the parsed rows
manage_invitations(election_id, pending_rows) ==
    /\ election_id \in DOMAIN elections
    /\ \E out \in BulkCreate(invitations, nextInvId, 0, election_id, pending_rows, {}) :
        /\ invitations' = out.invs
        /\ nextInvId' = out.nid
    /\ UNCHANGED <<setupVars, elections, votes, settingsRow, now, session, req, ballots>>

\* add_invitee(): one invitee; mail_ok is the result of _send_invite_email
add_invitee(election_id, name, email_in, send_now, mail_ok) ==
    LET parsed_email == Strip(email_in) IN
    /\ election_id \in DOMAIN elections
    /\ IF parsed_email = NoStr
       THEN \* 'Email is required to add an invitee.'
            /\ UNCHANGED <<invitations, nextInvId, settingsRow>>
       ELSE IF \A j \in DOMAIN parsed_email : parsed_email[j] # "@"
       THEN \* 'Please provide a valid email address.'
            /\ UNCHANGED <<invitations, nextInvId, settingsRow>>
       ELSE IF EmailTaken(invitations, election_id, Lower(parsed_email), NoId)
       THEN \* 'An invitation for that email already exists.'
            /\ UNCHANGED <<invitations, nextInvId, settingsRow>>
       ELSE /\ \E new_key \in _generate_unique_key(invitations, election_id, {}) :
                LET invitation == IssueKey(NewInvitation(election_id, name, parsed_email), new_key)
                    sent == IF send_now /\ mail_ok
                            THEN [invitation EXCEPT !.sent_at = now] ELSE invitation
                IN  invitations' = invitations @@ (nextInvId :> sent)
            /\ nextInvId' = nextInvId + 1
            /\ settingsRow' = (settingsRow \/ send_now)
    /\ UNCHANGED <<setupVars, elections, votes, now, session, req, ballots>>

\* update_invitation(): edit name and email
update_invitation(invitation_id, name, email_in) ==
    LET email == Strip(email_in) IN
    /\ invitation_id \in DOMAIN invitations
    /\ IF email # NoStr /\ EmailTaken(invitations, invitations[invitation_id].election_id,
                                      Lower(email), invitation_id)
       THEN \* 'Another invite already uses that email for this election.'
            /\ UNCHANGED invitations
       ELSE /\ invitations' = [invitations EXCEPT ![invitation_id].name = name,
                                                  ![invitation_id].email = email]
    /\ UNCHANGED <<setupVars, elections, nextInvId, votes, settingsRow, now, session, req, ballots>>

\* a delete that keeps the row and only withdraws the mail address
delete_invitation_soft(invitation_id) ==
    /\ invitation_id \in DOMAIN invitations
    /\ invitations' = [invitations EXCEPT ![invitation_id].email = NoStr]
    /\ UNCHANGED <<setupVars, elections, nextInvId, votes, settingsRow, now, session, req, ballots>>

\* delete_invitation()
delete_invitation(invitation_id) ==
    /\ invitation_id \in DOMAIN invitations
    /\ invitations' = [i \in DOMAIN invitations \ {invitation_id} |-> invitations[i]]
    /\ UNCHANGED <<setupVars, elections, nextInvId, votes, settingsRow, now, session, req, ballots>>

\* a resend that replaces the invitation by a new row with a new key
send_single_invitation_reissuing(invitation_id, mail_ok) ==
    /\ invitation_id \in DOMAIN invitations
    /\ IF invitations[invitation_id].email = NoStr
       THEN /\ UNCHANGED <<invitations, nextInvId, settingsRow>>
       ELSE \E new_key \in _generate_unique_key(invitations,
                                invitations[invitation_id].election_id, {}) :
            LET rotated == IssueKey(invitations[invitation_id], new_key) IN
            /\ settingsRow' = TRUE
            /\ invitations' =
                  [i \in DOMAIN invitations \ {invitation_id} |-> invitations[i]]
                  @@ (nextInvId :> [rotated EXCEPT !.sent_at = IF mail_ok THEN now ELSE NoTime])
            /\ nextInvId' = nextInvId + 1
    /\ UNCHANGED <<setupVars, elections, votes, now, session, req, ballots>>

\* send_single_invitation(): rotate the key and send it. When the mail fails
\* the handler returns before its commit: the rotation is rolled back by the
\* teardown, unless SystemSettings.get_or_create() inside _send_invite_email
\* had to create the settings row, whose commit also commits the rotation.
send_single_invitation(invitation_id, mail_ok) ==
    /\ invitation_id \in DOMAIN invitations
    /\ IF invitations[invitation_id].email = NoStr
       THEN /\ UNCHANGED <<invitations, settingsRow>>
       ELSE \E new_key \in _generate_unique_key(invitations,
                                invitations[invitation_id].election_id, {}) :
            LET rotated == IssueKey(invitations[invitation_id], new_key) IN
            /\ settingsRow' = TRUE
            /\ IF mail_ok
               THEN /\ invitations' = [invitations EXCEPT ![invitation_id] =
                                         [rotated EXCEPT !.sent_at = now,
                                                         !.reminder_sent_at = NoTime]]
               ELSE /\ invitations' = IF settingsRow THEN invitations
                                      ELSE [invitations EXCEPT ![invitation_id] = rotated]
    /\ UNCHANGED <<setupVars, elections, nextInvId, votes, now, session, req, ballots>>

\* send_single_reminder()
send_single_reminder(invitation_id, mail_ok) ==
    /\ invitation_id \in DOMAIN invitations
    /\ IF invitations[invitation_id].email = NoStr
       THEN /\ UNCHANGED <<invitations, settingsRow>>
       ELSE IF invitations[invitation_id].used
       THEN /\ UNCHANGED <<invitations, settingsRow>>
       ELSE /\ settingsRow' = TRUE
            /\ IF mail_ok
               THEN /\ invitations' = [invitations EXCEPT
                                         ![invitation_id].reminder_sent_at = now]
               ELSE /\ UNCHANGED invitations
    /\ UNCHANGED <<setupVars, elections, nextInvId, votes, now, session, req, ballots>>

\* the loop of send_invitations over the unsent invitations: the set of
\* possible results [invs, sent_count], one per choice of keys and mail results
RECURSIVE BulkSend(_, _, _, _, _, _)
BulkSend(invs, sent_count, election_id, unsent, reserved, t) ==
    IF unsent = << >> THEN {[invs |-> invs, sent_count |-> sent_count]}
    ELSE LET i == Head(unsent) IN
         UNION {
            \* _send_invite_email failed: continue
            BulkSend([invs EXCEPT ![i] = IssueKey(@, new_key)], sent_count,
                     election_id, Tail(unsent), reserved \cup {new_key}, t)
            \cup
            \* delivered: invitation.sent_at = utcnow()
            BulkSend([invs EXCEPT ![i] = [IssueKey(@, new_key) EXCEPT !.sent_at = t]],
                     sent_count + 1, election_id, Tail(unsent), reserved \cup {new_key}, t)
            : new_key \in _generate_unique_key(invs, election_id, reserved)}

\* a bulk send that takes every invitation with an email, sent before or not
send_invitations_to_all(election_id) ==
    LET everyone == {i \in InvitationsOf(invitations, election_id) :
                       invitations[i].email # NoStr}
    IN
    /\ election_id \in DOMAIN elections
    /\ IF everyone = {}
       THEN /\ UNCHANGED <<invitations, settingsRow>>
       ELSE /\ \E out \in BulkSend(invitations, 0, election_id, Ascending(everyone), {}, now) :
                /\ invitations' = out.invs
            /\ settingsRow' = TRUE
    /\ UNCHANGED <<setupVars, elections, nextInvId, votes, now, session, req, ballots>>

\* send_invitations(): rotate and send the key of every unsent invitation
send_invitations(election_id) ==
    LET unsent == {i \in InvitationsOf(invitations, election_id) :
                     invitations[i].sent_at = NoTime /\ invitations[i].email # NoStr}
    IN
    /\ election_id \in DOMAIN elections
    /\ IF unsent = {}
       THEN /\ UNCHANGED <<invitations, settingsRow>>
       ELSE /\ \E out \in BulkSend(invitations, 0, election_id, Ascending(unsent), {}, now) :
                /\ invitations' = out.invs
            /\ settingsRow' = TRUE
    /\ UNCHANGED <<setupVars, elections, nextInvId, votes, now, session, req, ballots>>

\* the loop of send_reminders: any subset of the mails may fail
send_reminders(election_id, delivered) ==
    LET pending == {i \in InvitationsOf(invitations, election_id) :
                      /\ invitations[i].sent_at # NoTime
                      /\ ~invitations[i].used
                      /\ invitations[i].reminder_sent_at = NoTime
                      /\ invitations[i].email # NoStr}
    IN
    /\ election_id \in DOMAIN elections
    /\ delivered \subseteq pending
    /\ IF pending = {}
       THEN /\ UNCHANGED <<invitations, settingsRow>>
       ELSE /\ invitations' = [i \in DOMAIN invitations |->
                                 IF i \in delivered
                                 THEN [invitations[i] EXCEPT !.reminder_sent_at = now]
                                 ELSE invitations[i]]
            /\ settingsRow' = TRUE
    /\ UNCHANGED <<setupVars, elections, nextInvId, votes, now, session, req, ballots>>

-----------------------------------------------------------------------------
(* admin/routes.py: elections *)

\* an edit that does not look for the code among the other elections
edit_election_any_code(election_id, access_code_in, is_active, start_time, end_time) ==
    LET access_code == Strip(access_code_in) IN
    /\ election_id \in DOMAIN elections
    /\ IF access_code = NoStr
       THEN UNCHANGED elections
       ELSE IF start_time # NoTime /\ end_time # NoTime /\ end_time <= start_time
       THEN UNCHANGED elections
       ELSE elections' = [elections EXCEPT ![election_id] =
                            [access_code |-> access_code, is_active |-> is_active,
                             start_time |-> start_time, end_time |-> end_time]]
    /\ UNCHANGED <<setupVars, invitations, nextInvId, votes, settingsRow, now, session, req, ballots>>

\* an edit that does not compare the two ends of the window
edit_election_any_window(election_id, access_code_in, is_active, start_time, end_time) ==
    LET access_code == Strip(access_code_in)
        existing_code == \E other \in DOMAIN elections :
                            /\ other # election_id
                            /\ Lower(elections[other].access_code) = Lower(access_code)
    IN
    /\ election_id \in DOMAIN elections
    /\ IF access_code = NoStr
       THEN UNCHANGED elections
       ELSE IF existing_code
       THEN UNCHANGED elections
       ELSE elections' = [elections EXCEPT ![election_id] =
                            [access_code |-> access_code, is_active |-> is_active,
                             start_time |-> start_time, end_time |-> end_time]]
    /\ UNCHANGED <<setupVars, invitations, nextInvId, votes, settingsRow, now, session, req, ballots>>

\* edit_election(): POST of the settings form
edit_election(election_id, access_code_in, is_active, start_time, end_time) ==
    LET access_code == Strip(access_code_in)
        existing_code == \E other \in DOMAIN elections :
                            /\ other # election_id
                            /\ Lower(elections[other].access_code) = Lower(access_code)
    IN
    /\ election_id \in DOMAIN elections
    /\ IF access_code = NoStr
       THEN \* 'Election access code is required.'
            /\ UNCHANGED elections
       ELSE IF existing_code
       THEN \* 'Access code already in use. Choose another.'
            /\ UNCHANGED elections
       ELSE IF start_time # NoTime /\ end_time # NoTime /\ end_time <= start_time
       THEN \* 'End time must be after the start time.'
            /\ UNCHANGED elections
       ELSE /\ elections' = [elections EXCEPT ![election_id] =
                               [access_code |-> access_code, is_active |-> is_active,
                                start_time |-> start_time, end_time |-> end_time]]
    /\ UNCHANGED <<setupVars, invitations, nextInvId, votes, settingsRow, now, session, req, ballots>>

\* the clock advances
Tick ==
    /\ now < MaxNow
    /\ now' = now + 1
    /\ UNCHANGED <<setupVars, elections, invitations, nextInvId, votes, settingsRow, session, req, ballots>>

-----------------------------------------------------------------------------
(* public/routes.py: submit_ballot as interleaved steps. A request reads the
   session and the rows (submit_begin), then commits (submit_commit) or fails
   before its commit completes (submit_fail), then writes the audit entry and
   clears the session (submit_finish); other requests run in between. The
   store runs at PostgreSQL's default isolation, READ COMMITTED: the UPDATE of
   the invitation row carries no condition on used. *)

IdleReq == [pc |-> "idle", sid |-> NoId, election_id |-> NoId, invitation_id |-> NoId,
            rows |-> << >>, status |-> "none"]

\* lines 67-100: read the session, load the rows, check, stage the Vote rows
submit_begin(r, s, form) ==
    LET sess == session[s]
        status == SubmitCheck(sess)
        rows == BallotRows(sess.election_id, SortedPositions(PositionsOf(sess.election_id)),
                           form, now)
    IN
    /\ req[r].pc = "idle"
    /\ IF status # "ok"
       THEN /\ req' = [req EXCEPT ![r] = [IdleReq EXCEPT !.pc = "rejected", !.sid = s,
                                                       !.status = status]]
       ELSE /\ req' = [req EXCEPT ![r] =
                         [pc |-> "staged", sid |-> s, election_id |-> sess.election_id,
                          invitation_id |-> sess.invitation_id, rows |-> rows,
                          status |-> "none"]]
    /\ UNCHANGED <<setupVars, elections, invitations, nextInvId, votes, settingsRow, now,
                   session, ballots>>

\* lines 101-104: invitation.used = True, used_at, commit
submit_commit(r) ==
    /\ req[r].pc = "staged"
    /\ IF req[r].invitation_id \notin DOMAIN invitations
       THEN \* the row is gone: the UPDATE matches nothing, the flush raises
            /\ req' = [req EXCEPT ![r].pc = "failed", ![r].status = "StorageUnavailable"]
            /\ UNCHANGED <<votes, invitations, ballots>>
       ELSE /\ votes' = votes \o req[r].rows
            /\ invitations' = [invitations EXCEPT ![req[r].invitation_id] = MarkUsed(@, now)]
            /\ ballots' = AcceptBallot(ballots, req[r].invitation_id)
            /\ req' = [req EXCEPT ![r].pc = "committed"]
    /\ UNCHANGED <<setupVars, elections, nextInvId, settingsRow, now, session>>

\* a failure that leaves the first staged Vote row behind
submit_fail_partial(r) ==
    /\ req[r].pc = "staged"
    /\ req' = [req EXCEPT ![r].pc = "failed", ![r].status = "StorageUnavailable"]
    /\ votes' = votes \o (IF req[r].rows = << >> THEN << >> ELSE <<Head(req[r].rows)>>)
    /\ UNCHANGED <<setupVars, elections, invitations, nextInvId, settingsRow, now,
                   session, ballots>>

\* the store fails before the commit completes: cleanup_db_session rolls back
submit_fail(r) ==
    /\ req[r].pc = "staged"
    /\ req' = [req EXCEPT ![r].pc = "failed", ![r].status = "StorageUnavailable"]
    /\ UNCHANGED <<setupVars, elections, invitations, nextInvId, votes, settingsRow, now,
                   session, ballots>>

\* lines 105-114: record_audit, pop the session keys, render the thank-you page;
\* when record_audit's commit fails the request ends in an error here
submit_finish(r, audit_ok) ==
    /\ req[r].pc = "committed"
    /\ IF audit_ok
       THEN /\ session' = [session EXCEPT ![req[r].sid] = EmptySession]
            /\ req' = [req EXCEPT ![r].pc = "done", ![r].status = "ok"]
       ELSE /\ UNCHANGED session
            /\ req' = [req EXCEPT ![r].pc = "failed", ![r].status = "StorageUnavailable"]
    /\ UNCHANGED <<setupVars, elections, invitations, nextInvId, votes, settingsRow, now,
                   ballots>>

-----------------------------------------------------------------------------
(* Inputs *)

Sessions == 1..NumSessions
Reqs == 1..NumReqs

Code1 == <<"E", "1">>
Code2 == <<"B", "2">>

\* what a voter may type as election code and as key
CodeInputs == {<<"e", "1">>, Code2, <<"x">>}
KeyInputs == generate_6_digit_code \cup {NoStr}

EmailA == <<"a", "@">>
EmailB == <<"b", "@">>
EmailInputs == {EmailA, EmailB}
NameInputs == {NoStr}

\* the bulk upload's parsed rows: 1..MaxBatch rows
RowInputs ==
    UNION {[1..n -> [name : NameInputs, email : EmailInputs]] : n \in 1..MaxBatch}

\* a ballot form: position_<id> -> the selected candidate id (NoId: no selection)
Forms(election_id) ==
    [PositionsOf(election_id) -> {NoId} \cup DOMAIN candidates]

OpenElection(code) ==
    [access_code |-> code, is_active |-> TRUE, start_time |-> NoTime, end_time |-> NoTime]

\* the AdminUser row of the account the installation starts with
FirstAdmin == (1 :> [username |-> <<"r">>, is_super_admin |-> TRUE])

\* the part of every initial state that no setup decides
InitRest ==
    /\ admins = FirstAdmin
    /\ votes = << >>
    /\ settingsRow = FALSE
    /\ now = 0
    /\ session = [s \in Sessions |-> EmptySession]
    /\ req = [r \in Reqs |-> IdleReq]
    /\ ballots = << >>

\* the admin switches an election on or off, leaving its other settings
SetActive ==
    \E e \in DOMAIN elections, a \in BOOLEAN :
        edit_election(e, elections[e].access_code, a,
                      elections[e].start_time, elections[e].end_time)

\* the admin sets the voting window and the active flag
TimeInputs == {NoTime} \cup 1..MaxNow
EditWindow ==
    \E e \in DOMAIN elections, a \in BOOLEAN, st \in TimeInputs, en \in TimeInputs :
        edit_election(e, elections[e].access_code, a, st, en)

\* requests of the browsers S
VerifyBy(S) == \E s \in S, c \in CodeInputs, k \in KeyInputs : vote(s, c, k)

SubmitBy(S) ==
    \E s \in S, storage \in StorageOutcomes :
        \E form \in Forms(session[s].election_id) : submit_ballot(s, form, storage)

\* the handlers that insert invitation rows, while fewer than cap were inserted
BulkUpload(cap) ==
    \E e \in DOMAIN elections, rows \in RowInputs :
        /\ nextInvId + Len(rows) - 1 <= cap
        /\ manage_invitations(e, rows)

AddInvitee(cap) ==
    \E e \in DOMAIN elections, n \in NameInputs, m \in EmailInputs, send_now, ok \in BOOLEAN :
        /\ nextInvId <= cap
        /\ add_invitee(e, n, m, send_now, ok)

UpdateInvitation ==
    \E i \in DOMAIN invitations, n \in NameInputs, m \in EmailInputs \cup {NoStr} :
        update_invitation(i, n, m)

DeleteInvitation == \E i \in DOMAIN invitations : delete_invitation(i)

SendSingle == \E i \in DOMAIN invitations, ok \in BOOLEAN : send_single_invitation(i, ok)

SendSingleReminder == \E i \in DOMAIN invitations, ok \in BOOLEAN : send_single_reminder(i, ok)

SendAll == \E e \in DOMAIN elections : send_invitations(e)

SendReminders ==
    \E e \in DOMAIN elections : \E d \in SUBSET DOMAIN invitations : send_reminders(e, d)

SubmitBegin ==
    \E r \in Reqs, s \in Sessions :
        \E form \in Forms(session[s].election_id) : submit_begin(r, s, form)

SubmitCommit == \E r \in Reqs : submit_commit(r)

SubmitFail == \E r \in Reqs : submit_fail(r)

SubmitFinish == \E r \in Reqs, audit_ok \in BOOLEAN : submit_finish(r, audit_ok)

-----------------------------------------------------------------------------
(* Spec: the voter flow of one browser and the invitation handlers, one
   request at a time. The store after the admin has set up one election with
   one position and one candidate; no invitation, no vote, no settings row. *)

OneElection ==
    /\ elections = (1 :> OpenElection(Code1))
    /\ positions = (1 :> [election_id |-> 1, order_index |-> 0])
    /\ candidates = (1 :> [position_id |-> 1])

Init ==
    /\ OneElection
    /\ invitations = << >>
    /\ nextInvId = 1
    /\ InitRest

Next ==
    \/ VerifyBy({1})
    \/ SubmitBy({1})
    \/ BulkUpload(MaxInv)
    \/ AddInvitee(MaxInv)
    \/ UpdateInvitation
    \/ DeleteInvitation
    \/ SendSingle
    \/ SendAll
    \/ SetActive

Spec == Init /\ [][Next]_vars

-----------------------------------------------------------------------------
(* SpecMulti: several browsers hold the key of the same invitation; one
   request at a time. *)

NextMulti ==
    \/ VerifyBy(Sessions)
    \/ SubmitBy(Sessions)
    \/ AddInvitee(MaxInvMulti)
    \/ UpdateInvitation
    \/ DeleteInvitation
    \/ SendSingle
    \/ SendAll
    \/ SendSingleReminder
    \/ SendReminders
    \/ SetActive

SpecMulti == Init /\ [][NextMulti]_vars

-----------------------------------------------------------------------------
(* SpecKeys: key issuance over two elections. *)

TwoElections ==
    /\ elections = (1 :> OpenElection(Code1)) @@ (2 :> OpenElection(Code2))
    /\ positions = (1 :> [election_id |-> 1, order_index |-> 0])
                   @@ (2 :> [election_id |-> 2, order_index |-> 0])
    /\ candidates = (1 :> [position_id |-> 1]) @@ (2 :> [position_id |-> 2])

InitKeys ==
    /\ TwoElections
    /\ invitations = << >>
    /\ nextInvId = 1
    /\ InitRest

NextKeys ==
    \/ VerifyBy({1})
    \/ SubmitBy({1})
    \/ BulkUpload(MaxInv)
    \/ AddInvitee(MaxInv)
    \/ DeleteInvitation
    \/ SendSingle
    \/ SendAll

SpecKeys == InitKeys /\ [][NextKeys]_vars

-----------------------------------------------------------------------------
(* SpecConc: submit_ballot requests interleaved. Every browser has verified
   the key of invitation 1 of the open election. *)

Key1 == Format06d(RandSamples[1])

InitConc ==
    /\ elections = (1 :> OpenElection(Code1))
    /\ positions = (1 :> [election_id |-> 1, order_index |-> 0])
                   @@ (2 :> [election_id |-> 1, order_index |-> 1])
    /\ candidates = (1 :> [position_id |-> 1]) @@ (2 :> [position_id |-> 2])
    /\ invitations = (1 :> [IssueKey(NewInvitation(1, NoStr, EmailA), Key1)
                              EXCEPT !.sent_at = 0])
    /\ nextInvId = 2
    /\ admins = FirstAdmin
    /\ votes = << >>
    /\ settingsRow = TRUE
    /\ now = 0
    /\ session = [s \in Sessions |->
                    [election_id |-> 1, invitation_id |-> 1, voter_name |-> EmailA]]
    /\ req = [r \in Reqs |-> IdleReq]
    /\ ballots = << >>

NextConc ==
    \/ SubmitBegin
    \/ SubmitCommit
    \/ SubmitFail
    \/ SubmitFinish

SpecConc == InitConc /\ [][NextConc]_vars

-----------------------------------------------------------------------------
(* SpecWindow: the voting window. One invitation exists; the admin edits the
   window and the active flag while the clock runs. *)

InitWindow ==
    /\ OneElection
    /\ invitations = (1 :> [IssueKey(NewInvitation(1, NoStr, EmailA), Key1)
                              EXCEPT !.sent_at = 0])
    /\ nextInvId = 2
    /\ admins = FirstAdmin
    /\ votes = << >>
    /\ settingsRow = TRUE
    /\ now = 0
    /\ session = [s \in Sessions |-> EmptySession]
    /\ req = [r \in Reqs |-> IdleReq]
    /\ ballots = << >>

NextWindow ==
    \/ VerifyBy({1})
    \/ SubmitBy({1})
    \/ EditWindow
    \/ Tick

SpecWindow == InitWindow /\ [][NextWindow]_vars

-----------------------------------------------------------------------------
(* Properties *)

\* the requests that have written their ballot
Committed == {r \in Reqs : req[r].pc \in {"committed", "done"}}

\* C1: of N >= 2 concurrent submit_ballot requests for the same unused
\* invitation exactly one is accepted and the others are rejected as
\* AlreadyVoted; the votes of at most one request are ever persisted.
C1_ExactlyOneAccepted ==
    /\ \A k \in DOMAIN ballots : ballots[k] <= 1
    /\ Len(votes) <= Cardinality(PositionsOf(1))
    /\ (\A r \in Reqs : req[r].pc \in {"done", "rejected"}) =>
          /\ Cardinality({r \in Reqs : req[r].pc = "done"}) = 1
          /\ \A r \in Reqs : req[r].pc = "rejected" => req[r].status = "AlreadyVoted"

\* two requests have both passed the check on invitation.used of one invitation
C1_BothPassedTheCheck ==
    \E r1, r2 \in Reqs :
        /\ r1 # r2
        /\ req[r1].pc = "staged" /\ req[r2].pc = "staged"
        /\ req[r1].invitation_id = req[r2].invitation_id

\* C2: once a ballot has been accepted for an invitation, verify with that
\* invitation's plaintext key and the correct access code is rejected in every
\* later state.
C2_RedeemedKeyNeverVerifies ==
    \A k \in DOMAIN ballots :
        k.election_id \in DOMAIN elections =>
            VerifyOutcome(elections[k.election_id].access_code, k.key).status # "ok"

\* C3: with one request at a time, at most one submit_ballot is ever accepted
\* for an invitation, whatever the browsers verify and the admin rotates or edits.
C3_OneBallotPerInvitation ==
    \A a, b \in DOMAIN ballots :
        a.invitation_id = b.invitation_id => (a = b /\ ballots[a] = 1)

\* a ballot was accepted for an invitation that another browser had verified too
C3_SecondBrowserStillBound ==
    \E k \in DOMAIN ballots :
        /\ session[1] = EmptySession
        /\ session[2].invitation_id = k.invitation_id
        /\ k.invitation_id \in DOMAIN invitations
        /\ invitations[k.invitation_id].used

\* C4: a used invitation is never made unused again, and no plaintext key
\* verifies against a used invitation.
C4_UsedIsTerminal ==
    /\ [](\A c \in CodeInputs, k \in KeyInputs :
            LET out == VerifyOutcome(c, k)
            IN  out.invitation_id # NoId => ~invitations[out.invitation_id].used)
    /\ [][\A i \in DOMAIN invitations :
            (invitations[i].used /\ i \in DOMAIN invitations') => invitations'[i].used]_vars

\* a used invitation whose key was rotated after its ballot
C4_RotatedAfterUse ==
    \E k \in DOMAIN ballots :
        /\ k.invitation_id \in DOMAIN invitations
        /\ invitations[k.invitation_id].used
        /\ ~check_key(invitations[k.invitation_id], k.key)

\* C5: after a committed rotation of an unused invitation's key, verify with
\* the previous plaintext fails, and verify with the new plaintext and the
\* access code of the open election succeeds.
C5_RotationReplacesKey ==
    [][\A i \in DOMAIN invitations, old_key, new_key \in generate_6_digit_code :
        LET e == invitations[i].election_id
            code == elections[e].access_code
        IN  (/\ i \in DOMAIN invitations'
             /\ ~invitations[i].used
             /\ check_key(invitations[i], old_key)
             /\ ~check_key(invitations'[i], old_key)
             /\ check_key(invitations'[i], new_key)
             /\ is_open(elections[e], now))
            => /\ (VerifyOutcome(code, old_key).status # "ok")'
               /\ (VerifyOutcome(code, new_key).status = "ok")'
               /\ (VerifyOutcome(code, new_key).invitation_id = i)']_vars

\* C6: the persisted state of an invitation holds only a hash of its key; the
\* plaintext is in no persisted field.
C6_OnlyHashPersisted ==
    \A i \in DOMAIN invitations :
        ~check_key(invitations[i], invitations[i].last_generated_key)

\* C7: a Vote row has the columns election, position, candidate and timestamp
\* and nothing that refers to an invitation or a voter.
C7_VoteIsAnonymous ==
    \A n \in DOMAIN votes :
        /\ DOMAIN votes[n] = {"election_id", "position_id", "candidate_id", "cast_at"}
        /\ votes[n].election_id \in DOMAIN elections
        /\ votes[n].position_id \in DOMAIN positions
        /\ votes[n].candidate_id \in DOMAIN candidates
        /\ votes[n].cast_at \in 0..MaxNow

\* Vote rows exist and their voter's invitation is used
C7_BallotRecorded ==
    /\ votes # << >>
    /\ \E i \in DOMAIN invitations : invitations[i].used

\* C8: submit_ballot is all-or-nothing. A step either leaves the Vote rows and
\* every used flag and used_at as they were, or is the commit of one request,
\* which adds all its Vote rows and sets used and used_at together.
C8_AllOrNothing ==
    [][\/ /\ votes' = votes
          /\ \A i \in DOMAIN invitations :
                /\ i \in DOMAIN invitations'
                /\ invitations'[i].used = invitations[i].used
                /\ invitations'[i].used_at = invitations[i].used_at
       \/ \E r \in Reqs :
            /\ req[r].pc = "staged" /\ req'[r].pc = "committed"
            /\ votes' = votes \o req[r].rows
            /\ invitations'[req[r].invitation_id].used
            /\ invitations'[req[r].invitation_id].used_at = now]_vars

\* a request with two selections failed before its commit and nothing is stored
C8_FailedBeforeCommit ==
    \E r \in Reqs :
        /\ req[r].pc = "failed"
        /\ Len(req[r].rows) = 2
        /\ votes = << >>
        /\ \A i \in DOMAIN invitations : ~invitations[i].used

\* C8 as stated: while no request has ended accepted, no Vote row is stored and
\* no invitation is used, wherever after validation the requests failed.
C8_FailureLeavesNothing ==
    (\A r \in Reqs : req[r].pc \in {"idle", "staged", "rejected", "failed"}) =>
        /\ votes = << >>
        /\ \A i \in DOMAIN invitations : ~invitations[i].used

\* C9: submit_ballot checks election.is_open() when it runs. In a step taken
\* while an election is not open no Vote row of that election is added and no
\* invitation of it becomes used, also when a session had verified a key.
C9_ClosedElectionTakesNoBallot ==
    [][\A e \in DOMAIN elections :
        ~is_open(elections[e], now) =>
            /\ {n \in DOMAIN votes' : votes'[n].election_id = e}
                 = {n \in DOMAIN votes : votes[n].election_id = e}
            /\ \A i \in InvitationsOf(invitations, e) :
                  i \in DOMAIN invitations' =>
                     /\ invitations'[i].used = invitations[i].used
                     /\ invitations'[i].used_at = invitations[i].used_at]_vars

\* a session verified a key while the election was open, and the election has
\* closed before the ballot was submitted
C9_VerifiedThenClosed ==
    \E s \in Sessions :
        /\ session[s].invitation_id \in DOMAIN invitations
        /\ ~invitations[session[s].invitation_id].used
        /\ session[s].election_id \in DOMAIN elections
        /\ ~is_open(elections[session[s].election_id], now)

\* C10: no two invitations of the same election, used or not, accept the same
\* plaintext key.
C10_KeysUniquePerElection ==
    \A i, j \in DOMAIN invitations :
        (i # j /\ invitations[i].election_id = invitations[j].election_id) =>
            \A k \in generate_6_digit_code :
                ~(check_key(invitations[i], k) /\ check_key(invitations[j], k))

\* two sent invitations of one election, one of them used
C10_TwoKeysIssued ==
    \E i, j \in DOMAIN invitations :
        /\ i # j
        /\ invitations[i].election_id = invitations[j].election_id
        /\ invitations[i].sent_at # NoTime /\ invitations[j].sent_at # NoTime
        /\ invitations[i].used

-----------------------------------------------------------------------------
(* public/routes.py: what the voter sees *)

\* what POST / answers: the flashed message, its category and the redirect
VerifyResponse(election_code_in, voting_key_in) ==
    LET status == VerifyOutcome(election_code_in, voting_key_in).status IN
    CASE status = "Required" ->
            [flash |-> "Election code and voting key are required.",
             category |-> "danger", location |-> "public.vote"]
      [] status = "ElectionNotFound" ->
            [flash |-> "Election code not recognized.",
             category |-> "danger", location |-> "public.vote"]
      [] status = "InvalidKey" ->
            [flash |-> "Invalid or already-used key.",
             category |-> "danger", location |-> "public.vote"]
      [] status = "ElectionClosed" ->
            [flash |-> "Election is not accepting votes right now.",
             category |-> "warning", location |-> "public.vote"]
      [] OTHER ->
            [flash |-> "Key accepted. Please cast your ballot.",
             category |-> "success", location |-> "public.ballot"]

\* the rejections of a key verification that the voter must not tell apart
Denials == {"ElectionNotFound", "InvalidKey", "ElectionClosed"}

\* C11: the voter-visible outcome of a rejected key verification is the same
\* generic denial whichever check failed (unknown code, wrong key, closed
\* election).
C11_DenialIsGeneric ==
    \A c1, c2 \in CodeInputs, k1, k2 \in KeyInputs :
        (/\ VerifyOutcome(c1, k1).status \in Denials
         /\ VerifyOutcome(c2, k2).status \in Denials)
        => VerifyResponse(c1, k1) = VerifyResponse(c2, k2)

\* a correct key is refused because the election is closed
C11_ClosedDenied ==
    \E c \in CodeInputs, k \in KeyInputs : VerifyOutcome(c, k).status = "ElectionClosed"

\* C12: verify checks in a fixed order: ElectionNotFound when no active
\* election matches the code, else InvalidKey when no unused invitation of it
\* matches the key, else ElectionClosed when it is not open; only when all
\* pass is the session bound, and a failure binds nothing.
C12_VerifyOrder ==
    /\ [](\A c \in CodeInputs, k \in KeyInputs :
            LET e == _find_election_by_code(Strip(c))
                i == IF e = NoId THEN NoId ELSE _find_invitation(e, Strip(k))
                out == VerifyOutcome(c, k)
            IN  (Strip(c) # NoStr /\ Strip(k) # NoStr) =>
                    out.status = IF e = NoId THEN "ElectionNotFound"
                                 ELSE IF i = NoId THEN "InvalidKey"
                                 ELSE IF ~is_open(elections[e], now) THEN "ElectionClosed"
                                 ELSE "ok")
    /\ [][\A s \in Sessions :
            session'[s] # session[s] =>
                \/ session'[s] = EmptySession
                \/ \E c \in CodeInputs, k \in KeyInputs :
                     LET out == VerifyOutcome(c, k) IN
                     /\ out.status = "ok"
                     /\ session'[s] = [election_id |-> out.election_id,
                                       invitation_id |-> out.invitation_id,
                                       voter_name |->
                                          voter_name_of(invitations[out.invitation_id])]]_vars

\* a browser is bound, and now a wrong key for the closed election is refused
\* as an invalid key
C12_WrongKeyWhileClosed ==
    /\ session[1] # EmptySession
    /\ \E c \in CodeInputs, k \in KeyInputs :
         LET e == _find_election_by_code(Strip(c)) IN
         /\ e # NoId
         /\ ~is_open(elections[e], now)
         /\ VerifyOutcome(c, k).status = "InvalidKey"

\* C13: while an election is inactive no verification resolves it, whatever
\* the code and key; once it is active again and inside its window, the
\* correct unused key verifies again.
C13_InactiveIsNeverResolved ==
    /\ [](\A e \in DOMAIN elections : \A c \in CodeInputs, k \in KeyInputs :
            /\ (~elections[e].is_active) => VerifyOutcome(c, k).election_id # e
            /\ ( /\ elections[e].is_active
                 /\ is_open(elections[e], now)
                 /\ Lower(Strip(c)) = Lower(elections[e].access_code)
                 /\ \E i \in InvitationsOf(invitations, e) :
                       ~invitations[i].used /\ check_key(invitations[i], Strip(k)) )
               => /\ VerifyOutcome(c, k).status = "ok"
                  /\ VerifyOutcome(c, k).election_id = e)
    /\ [][\A e \in DOMAIN elections : \A c \in CodeInputs, k \in KeyInputs :
            ( /\ ~elections[e].is_active
              /\ elections'[e].is_active
              /\ is_open(elections'[e], now')
              /\ Lower(Strip(c)) = Lower(elections'[e].access_code)
              /\ \E i \in InvitationsOf(invitations', e) :
                    ~invitations'[i].used /\ check_key(invitations'[i], Strip(k)) )
            => (VerifyOutcome(c, k).status = "ElectionNotFound"
                /\ (VerifyOutcome(c, k).status = "ok")')]_vars

\* a key that verified before is turned away while its election is inactive
C13_DeactivatedAfterVerify ==
    /\ session[1].invitation_id # NoId
    /\ ~invitations[session[1].invitation_id].used
    /\ ~elections[session[1].election_id].is_active
    /\ \E c \in CodeInputs : VerifyOutcome(c, Key1).status = "ElectionNotFound"
                              /\ Lower(Strip(c)) = Lower(elections[1].access_code)

(* ------------------------------------------------------------------ *)
(* Access codes: the admin renames and toggles two elections while a    *)
(* voter types codes in any case and with surrounding blanks            *)
(* ------------------------------------------------------------------ *)

Key2 == Format06d(RandSamples[2])

\* what the admin may type as access code in the election form
AdminCodes == {Code1, <<"e", "1">>, Code2, <<" ", "b", "2", " ">>, <<"E", "2">>}

CodeAlphabet == {"E", "e", "B", "b", "1", "2"}

\* every spelling of code that differs from it in letter case only
CaseVariants(code) ==
    {v \in [1..Len(code) -> CodeAlphabet] :
        \A n \in 1..Len(code) : LowerChar(v[n]) = LowerChar(code[n])}

\* code as a voter may type it, with blanks around it
Padded(code) == {code, <<" ">> \o code, code \o <<" ">>, <<" ">> \o code \o <<" ">>}

TypedCodes ==
    UNION {Padded(v) : v \in UNION {CaseVariants(Strip(c)) : c \in AdminCodes}}
        \cup {<<"x">>, <<" ">>, NoStr}

EditCode ==
    \E e \in DOMAIN elections, c \in AdminCodes, a \in BOOLEAN :
        edit_election(e, c, a, elections[e].start_time, elections[e].end_time)

VerifyTyped ==
    \E c \in TypedCodes, k \in {Key1, Key2} : vote(1, c, k)

InitCodes ==
    /\ TwoElections
    /\ invitations = (1 :> [IssueKey(NewInvitation(1, NoStr, EmailA), Key1)
                              EXCEPT !.sent_at = 0])
                     @@ (2 :> [IssueKey(NewInvitation(2, NoStr, EmailA), Key2)
                                 EXCEPT !.sent_at = 0])
    /\ nextInvId = 3
    /\ InitRest

NextCodes ==
    \/ EditCode
    \/ VerifyTyped

SpecCodes == InitCodes /\ [][NextCodes]_vars

\* C14: _find_election_by_code is case-insensitive: every case variant of an
\* active election's access code, with or without surrounding blanks, finds
\* that election, and a code that is no variant of any active election's code
\* finds none.
C14_LookupIgnoresCase ==
    /\ \A e \in DOMAIN elections :
         elections[e].is_active =>
            \A v \in CaseVariants(elections[e].access_code) :
               \A typed \in Padded(v) : _find_election_by_code(typed) = e
    /\ \A typed \in TypedCodes :
         (\A e \in DOMAIN elections :
             elections[e].is_active =>
                Strip(typed) \notin CaseVariants(elections[e].access_code))
         => _find_election_by_code(typed) = NoId

\* the voter got into a renamed election with a spelling that is not the
\* stored one
C14_FoundByVariant ==
    \E e \in DOMAIN elections :
        /\ elections[e].access_code = <<"E", "2">>
        /\ session[1].election_id = e
        /\ \E typed \in TypedCodes :
              /\ Strip(typed) # elections[e].access_code
              /\ typed # Strip(typed)
              /\ _find_election_by_code(typed) = e

(* ------------------------------------------------------------------ *)
(* Submit preconditions: two elections with one invitation each, the    *)
(* admin toggles them while one browser verifies and submits            *)
(* ------------------------------------------------------------------ *)

\* what submit_ballot tells the voter when it turns the ballot away
SubmitFlash(status) ==
    CASE status = "SessionExpired" -> [flash |-> "Session expired. Enter your key again.",
                                       category |-> "danger"]
      [] status = "ElectionClosed" -> [flash |-> "Election is closed.", category |-> "warning"]
      [] status = "SessionMismatch" -> [flash |-> "Session mismatch. Please start again.",
                                        category |-> "danger"]
      [] status = "AlreadyVoted" -> [flash |-> "This key was already used.",
                                     category |-> "danger"]
      [] OTHER -> \* no flash: the thank-you page is rendered
                  [flash |-> "", category |-> ""]

NextSubmit ==
    \/ VerifyBy({1})
    \/ SubmitBy({1})
    \/ SetActive
    \/ Tick

SpecSubmit == InitCodes /\ [][NextSubmit]_vars

SubmitRejections == {"ElectionClosed", "SessionMismatch", "AlreadyVoted"}

\* C15: submit_ballot checks in order: election not open -> ElectionClosed,
\* invitation of another election -> SessionMismatch, invitation used ->
\* AlreadyVoted; each is a distinct rejection that changes nothing, and a used
\* invitation in a closed election is told ElectionClosed.
C15_SubmitOrder ==
    /\ [](\A e \in DOMAIN elections, i \in DOMAIN invitations :
            SubmitCheck([election_id |-> e, invitation_id |-> i, voter_name |-> NoStr])
              = IF ~is_open(elections[e], now) THEN "ElectionClosed"
                ELSE IF invitations[i].election_id # e THEN "SessionMismatch"
                ELSE IF invitations[i].used THEN "AlreadyVoted"
                ELSE "ok")
    /\ [](\A r1, r2 \in SubmitRejections :
            r1 # r2 => SubmitFlash(r1).flash # SubmitFlash(r2).flash)
    /\ [][\A s \in Sessions, storage \in StorageOutcomes :
            \A form \in Forms(session[s].election_id) :
               (SubmitCheck(session[s]) \in SubmitRejections
                  /\ submit_ballot(s, form, storage))
               => UNCHANGED vars]_vars
    /\ [][(votes' # votes \/ ballots' # ballots
             \/ \E i \in DOMAIN invitations : invitations'[i].used # invitations[i].used)
          => \E s \in Sessions : SubmitCheck(session[s]) = "ok"]_vars

\* the browser still holds an invitation that was redeemed, and its election
\* has been closed since
C15_UsedAndClosed ==
    /\ session[1].invitation_id # NoId
    /\ invitations[session[1].invitation_id].used
    /\ ~is_open(elections[session[1].election_id], now)
    /\ SubmitCheck(session[1]) = "ElectionClosed"

(* ------------------------------------------------------------------ *)
(* models.py: Election.summarize_results                                *)
(* ------------------------------------------------------------------ *)

\* a count of the position's votes, whoever they name
VoteCountOfPosition(vs, election_id, position_id, candidate_id) ==
    Cardinality({n \in DOMAIN vs :
                    /\ vs[n].election_id = election_id
                    /\ vs[n].position_id = position_id})

\* Vote.query.filter_by(election_id, position_id, candidate_id).count()
VoteCount(vs, election_id, position_id, candidate_id) ==
    Cardinality({n \in DOMAIN vs :
                    /\ vs[n].election_id = election_id
                    /\ vs[n].position_id = position_id
                    /\ vs[n].candidate_id = candidate_id})

\* position.candidates
CandidatesOf(position_id) ==
    Ascending({c \in DOMAIN candidates : candidates[c].position_id = position_id})

\* the loop over position.candidates: one {'candidate', 'count'} item each
CandidateCounts(vs, election_id, position_id) ==
    LET cs == CandidatesOf(position_id) IN
    [n \in DOMAIN cs |->
        [candidate |-> cs[n], count |-> VoteCount(vs, election_id, position_id, cs[n])]]

\* max_votes as the loop leaves it: raised whenever a count exceeds it
RECURSIVE MaxVotes(_, _)
MaxVotes(candidate_counts, max_votes) ==
    IF candidate_counts = << >> THEN max_votes
    ELSE MaxVotes(Tail(candidate_counts),
                  IF Head(candidate_counts).count > max_votes
                  THEN Head(candidate_counts).count ELSE max_votes)

RECURSIVE TotalVotes(_, _)
TotalVotes(candidate_counts, total_votes) ==
    IF candidate_counts = << >> THEN total_votes
    ELSE TotalVotes(Tail(candidate_counts), total_votes + Head(candidate_counts).count)

\* a winners list that keeps one candidate at the maximum
WinnersFirstOnly(candidate_counts, max_votes) ==
    LET kept == SelectSeq(candidate_counts,
                          LAMBDA item : item.count = max_votes /\ max_votes > 0)
    IN  IF kept = << >> THEN << >> ELSE <<kept[1].candidate>>

\* a winners list that does not ask for a vote
WinnersWithoutVotes(candidate_counts, max_votes) ==
    LET kept == SelectSeq(candidate_counts, LAMBDA item : item.count = max_votes)
    IN  [n \in DOMAIN kept |-> kept[n].candidate]

\* winners: the candidates whose count is max_votes, when max_votes > 0
Winners(candidate_counts, max_votes) ==
    LET kept == SelectSeq(candidate_counts,
                          LAMBDA item : item.count = max_votes /\ max_votes > 0)
    IN  [n \in DOMAIN kept |-> kept[n].candidate]

PositionSummary(vs, election_id, position_id) ==
    LET candidate_counts == CandidateCounts(vs, election_id, position_id)
        max_votes == MaxVotes(candidate_counts, 0)
    IN  [position |-> position_id,
         candidates |-> candidate_counts,
         winners |-> Winners(candidate_counts, max_votes),
         max_votes |-> max_votes,
         total_votes |-> TotalVotes(candidate_counts, 0)]

\* the summary of an election over the Vote rows vs
SummaryOf(vs, election_id) ==
    LET sorted == SortedPositions(PositionsOf(election_id)) IN
    [n \in DOMAIN sorted |-> PositionSummary(vs, election_id, sorted[n])]

summarize_results(election_id) == SummaryOf(votes, election_id)

(* ------------------------------------------------------------------ *)
(* Tally: one election with three positions (three candidates, one     *)
(* candidate, none) and MaxBallots invitations whose keys were issued   *)
(* ------------------------------------------------------------------ *)

MaxBallots == 3

\* an id no candidate has
NoSuchCandidate == 9

TallyElection ==
    /\ elections = (1 :> OpenElection(Code1))
    /\ positions = (1 :> [election_id |-> 1, order_index |-> 0])
                   @@ (2 :> [election_id |-> 1, order_index |-> 1])
                   @@ (3 :> [election_id |-> 1, order_index |-> 2])
    /\ candidates = (1 :> [position_id |-> 1]) @@ (2 :> [position_id |-> 1])
                    @@ (3 :> [position_id |-> 1]) @@ (4 :> [position_id |-> 2])

InitTally ==
    /\ TallyElection
    /\ invitations = [i \in 1..MaxBallots |->
                        [IssueKey(NewInvitation(1, NoStr, NoStr), Format06d(RandSamples[i]))
                           EXCEPT !.sent_at = 0]]
    /\ nextInvId = MaxBallots + 1
    /\ InitRest

\* a ballot form whose fields may be empty, name a candidate of this or of
\* another position, or name no candidate at all
FieldInputs(position_id) ==
    IF position_id = 1 THEN {NoId} \cup DOMAIN candidates
    ELSE IF position_id = 2 THEN {NoId, 1, 4}
    ELSE {NoId, NoSuchCandidate}

TallyForms(election_id) ==
    {form \in [PositionsOf(election_id) -> {NoId, NoSuchCandidate} \cup DOMAIN candidates] :
        \A p \in DOMAIN form : form[p] \in FieldInputs(p)}

SubmitTally ==
    \E storage \in StorageOutcomes :
        \E form \in TallyForms(session[1].election_id) : submit_ballot(1, form, storage)

NextTally ==
    \/ VerifyBy({1})
    \/ SubmitTally

SpecTally == InitTally /\ [][NextTally]_vars

\* the set of the elements of a sequence
Range(seq) == {seq[n] : n \in DOMAIN seq}

\* C16: for every position, when max_votes > 0 the winners are exactly the
\* position's candidates whose count equals max_votes, which is the highest
\* count: every candidate tied at the maximum is there once, no other is.
C16_WinnersAreAllAtMax ==
    \A e \in DOMAIN elections :
       \A n \in DOMAIN summarize_results(e) :
          LET item == summarize_results(e)[n]
              atMax == {m \in DOMAIN item.candidates :
                           item.candidates[m].count = item.max_votes}
          IN  item.max_votes > 0 =>
                /\ \A m \in DOMAIN item.candidates :
                      item.candidates[m].count <= item.max_votes
                /\ atMax # {}
                /\ Range(item.winners) = {item.candidates[m].candidate : m \in atMax}
                /\ Len(item.winners) = Cardinality(atMax)

\* two candidates tied ahead of a third
C16_TieAheadOfThird ==
    \E n \in DOMAIN summarize_results(1) :
       LET item == summarize_results(1)[n] IN
       /\ item.max_votes > 0
       /\ Len(item.winners) = 2
       /\ Len(item.candidates) = 3

\* C17: a position with no Vote rows, a position without candidates
\* included, has max_votes = 0 and no winners.
C17_NoVotesNoWinners ==
    \A e \in DOMAIN elections :
       \A n \in DOMAIN summarize_results(e) :
          LET item == summarize_results(e)[n] IN
          (\A v \in DOMAIN votes : votes[v].position_id # item.position)
             => /\ item.max_votes = 0
                /\ item.winners = << >>

\* ballots were counted, and a position with a candidate still has no vote
C17_PositionWithoutVotes ==
    /\ votes # << >>
    /\ \E n \in DOMAIN summarize_results(1) :
          LET item == summarize_results(1)[n] IN
          /\ item.candidates # << >>
          /\ \A v \in DOMAIN votes : votes[v].position_id # item.position
          /\ item.winners = << >>

\* the count summarize_results reports for a candidate
TallyOf(vs, election_id, candidate_id) ==
    LET summary == SummaryOf(vs, election_id)
        item == summary[CHOOSE n \in DOMAIN summary :
                           summary[n].position = candidates[candidate_id].position_id]
    IN  item.candidates[CHOOSE m \in DOMAIN item.candidates :
                           item.candidates[m].candidate = candidate_id].count

\* the ballot of a step was accepted and stored
Stored == {"ok", "AuditFails"}

\* C18: an accepted ballot whose selection for a position names candidate A
\* of that position raises A's tally in summarize_results by exactly 1; the
\* tally of every other candidate of that position, and of every candidate of
\* a position without a valid selection, stays as it was.
C18_TallyGrowsByOne ==
    [][\A e \in DOMAIN elections :
          (e = session[1].election_id /\ ballots' # ballots) =>
             \A storage \in Stored : \A form \in TallyForms(e) :
                (SubmitCheck(session[1]) = "ok" /\ submit_ballot(1, form, storage))
                => \A c \in DOMAIN candidates :
                      TallyOf(votes', e, c) = TallyOf(votes, e, c)
                         + (IF form[candidates[c].position_id] = c THEN 1 ELSE 0)]_vars

\* one candidate was named by two ballots, another of the position by one
C18_TwoAndOne ==
    /\ TallyOf(votes, 1, 1) = 2
    /\ TallyOf(votes, 1, 2) = 1
    /\ TallyOf(votes, 1, 3) = 0

\* C19: a position whose selection is missing, or names a candidate that is
\* not one of the position's, adds no Vote row; the ballot is accepted all the
\* same and the invitation is marked used, also when every position is
\* skipped.
C19_SkippedSelections ==
    [][\A e \in DOMAIN elections :
          (e = session[1].election_id /\ ballots' # ballots) =>
             \A storage \in Stored : \A form \in TallyForms(e) :
                (SubmitCheck(session[1]) = "ok" /\ submit_ballot(1, form, storage))
                => LET valid == {p \in PositionsOf(e) :
                                    /\ form[p] \in DOMAIN candidates
                                    /\ candidates[form[p]].position_id = p}
                   IN  /\ Len(votes') = Len(votes) + Cardinality(valid)
                       /\ SubSeq(votes', 1, Len(votes)) = votes
                       /\ \A n \in (Len(votes) + 1)..Len(votes') :
                             /\ votes'[n].position_id \in valid
                             /\ votes'[n].candidate_id = form[votes'[n].position_id]
                       /\ invitations'[session[1].invitation_id].used]_vars

\* an invitation was consumed by a ballot that left no Vote row
C19_EmptyBallotConsumed ==
    /\ votes = << >>
    /\ ballots # << >>
    /\ \E i \in DOMAIN invitations : invitations[i].used

(* ------------------------------------------------------------------ *)
(* Invitee emails: the admin creates, edits and deletes invitations of  *)
(* two elections, typing emails in either case                          *)
(* ------------------------------------------------------------------ *)

\* invitation ids handed out in a run
MaxInvIds == 3

CasedEmailInputs == {EmailA, <<"A", "@">>, EmailB, <<" ", "B", "@">>}

CasedRowInputs ==
    UNION {[1..n -> [name : NameInputs, email : CasedEmailInputs]] : n \in 1..MaxBatch}

BulkUploadCased ==
    \E e \in DOMAIN elections, rows \in CasedRowInputs :
        /\ nextInvId + Len(rows) - 1 <= MaxInvIds
        /\ Cardinality(DOMAIN invitations) + Len(rows) <= MaxInv
        /\ manage_invitations(e, rows)

AddInviteeCased ==
    \E e \in DOMAIN elections, n \in NameInputs, m \in CasedEmailInputs :
        /\ nextInvId <= MaxInvIds
        /\ Cardinality(DOMAIN invitations) < MaxInv
        /\ add_invitee(e, n, m, FALSE, TRUE)

UpdateInvitationCased ==
    \E i \in DOMAIN invitations, n \in NameInputs, m \in CasedEmailInputs \cup {NoStr} :
        update_invitation(i, n, m)

NextEmails ==
    \/ BulkUploadCased
    \/ AddInviteeCased
    \/ UpdateInvitationCased
    \/ DeleteInvitation

SpecEmails == InitKeys /\ [][NextEmails]_vars

\* C20: among the invitations that have an email there is at most one per
\* election and lower-cased email, whatever bulk uploads (with repeated or
\* case-variant emails in one batch), single additions, edits and deletions
\* came before; an addition, an edit, or a batch made of emails already
\* present changes no invitation.
C20_OneInvitationPerEmail ==
    /\ [](\A i, j \in DOMAIN invitations :
            ( /\ i # j
              /\ invitations[i].election_id = invitations[j].election_id
              /\ invitations[i].email # NoStr
              /\ invitations[j].email # NoStr )
            => Lower(invitations[i].email) # Lower(invitations[j].email))
    /\ [][\A e \in DOMAIN elections, m \in CasedEmailInputs :
            LET present(x) == \E k \in InvitationsOf(invitations, e) :
                                 /\ invitations[k].email # NoStr
                                 /\ Lower(invitations[k].email) = Lower(Strip(x))
            IN  /\ (present(m) /\ add_invitee(e, NoStr, m, FALSE, TRUE))
                      => UNCHANGED invitations
                /\ \A rows \in CasedRowInputs :
                      ((\A r \in DOMAIN rows : present(rows[r].email))
                         /\ manage_invitations(e, rows))
                      => UNCHANGED invitations
                /\ \A i \in InvitationsOf(invitations, e) :
                      ( /\ \E k \in InvitationsOf(invitations, e) :
                              /\ k # i
                              /\ invitations[k].email # NoStr
                              /\ Lower(invitations[k].email) = Lower(Strip(m))
                        /\ update_invitation(i, NoStr, m) )
                      => UNCHANGED invitations]_vars

\* the same address, in different case, invited to both elections, after an
\* earlier invitation was deleted
C20_SameEmailInBothElections ==
    /\ nextInvId > MaxInv + 1
    /\ \E i, j \in DOMAIN invitations :
          /\ invitations[i].election_id # invitations[j].election_id
          /\ invitations[i].email # invitations[j].email
          /\ Lower(invitations[i].email) = Lower(invitations[j].email)

(* ------------------------------------------------------------------ *)
(* admin/routes.py: positions and their order                           *)
(* ------------------------------------------------------------------ *)

MaxPositions == 4

Max(S) == CHOOSE x \in S : \A y \in S : y <= x

\* (max(Position.order_index) of the election or -1) + 1: the maximum is None
\* without positions, and Python's `or` also replaces a maximum of 0
NextOrderIndex(election_id) ==
    LET taken == {positions[p].order_index : p \in PositionsOf(election_id)} IN
    IF taken = {} THEN (0 - 1) + 1
    ELSE (IF Max(taken) = 0 THEN 0 - 1 ELSE Max(taken)) + 1

\* the id the database gives the next Position row
NewPositionId == IF DOMAIN positions = {} THEN 1 ELSE Max(DOMAIN positions) + 1

positionVarsUnchanged ==
    UNCHANGED <<candidates, admins, elections, invitations, nextInvId, votes, settingsRow, now,
                session, req, ballots>>

\* create_position(): POST with the form's name
create_position(election_id, name_in) ==
    LET name == Strip(name_in) IN
    /\ election_id \in DOMAIN elections
    /\ IF name = NoStr
       THEN \* 'Name is required.'
            UNCHANGED positions
       ELSE positions' = positions @@
               (NewPositionId :> [election_id |-> election_id,
                                  order_index |-> NextOrderIndex(election_id)])
    /\ positionVarsUnchanged

\* reorder_positions(): POST with the JSON list `order` of position ids
reorder_positions(election_id, order) ==
    LET listed == {p \in PositionsOf(election_id) : \E n \in DOMAIN order : order[n] = p} IN
    /\ IF order = << >>
       THEN \* 400 'Missing order list.'
            UNCHANGED positions
       ELSE IF Cardinality(listed) # Len(order)
       THEN \* 400 'Invalid position list.'
            UNCHANGED positions
       ELSE positions' =
               [p \in DOMAIN positions |->
                   IF p \in listed
                   THEN [positions[p] EXCEPT
                           !.order_index = (CHOOSE n \in DOMAIN order : order[n] = p) - 1]
                   ELSE positions[p]]
    /\ positionVarsUnchanged

\* the rows move_position's neighbor query can return first
Neighbors(position_id, direction) ==
    LET mine == positions[position_id]
        side == {q \in PositionsOf(mine.election_id) :
                    IF direction = "up"
                    THEN positions[q].order_index < mine.order_index
                    ELSE positions[q].order_index > mine.order_index}
    IN  {q \in side :
            \A r \in side :
               IF direction = "up"
               THEN positions[r].order_index <= positions[q].order_index
               ELSE positions[r].order_index >= positions[q].order_index}

\* move_position(): swap order_index with the neighbor above or below
move_position(position_id, direction) ==
    /\ position_id \in DOMAIN positions
    /\ IF Neighbors(position_id, direction) = {}
       THEN \* 'Cannot move position further in that direction.'
            UNCHANGED positions
       ELSE \E neighbor \in Neighbors(position_id, direction) :
               positions' = [positions EXCEPT
                               ![position_id].order_index = positions[neighbor].order_index,
                               ![neighbor].order_index = positions[position_id].order_index]
    /\ positionVarsUnchanged

PositionNameInputs == {NoStr, <<"P">>}

OrderInputs == UNION {[1..n -> 1..MaxPositions] : n \in 1..MaxPositions}

CreatePosition ==
    \E e \in DOMAIN elections, name \in PositionNameInputs :
        /\ Cardinality(DOMAIN positions) < MaxPositions
        /\ create_position(e, name)

ReorderPositions ==
    \E e \in DOMAIN elections, order \in OrderInputs \cup {<< >>} : reorder_positions(e, order)

MovePosition ==
    \E p \in DOMAIN positions, direction \in {"up", "down"} : move_position(p, direction)

InitPositions ==
    /\ elections = (1 :> OpenElection(Code1)) @@ (2 :> OpenElection(Code2))
    /\ positions = << >>
    /\ candidates = << >>
    /\ invitations = << >>
    /\ nextInvId = 1
    /\ InitRest

NextPositions ==
    \/ CreatePosition
    \/ ReorderPositions
    \/ MovePosition

SpecPositions == InitPositions /\ [][NextPositions]_vars

\* C21: within each election no two positions have the same order_index,
\* whatever create_position, move_position and reorder_positions requests
\* (reorders of only some of the positions included) came before.
C21_OrderIndexUnique ==
    \A p, q \in DOMAIN positions :
        (p # q /\ positions[p].election_id = positions[q].election_id)
        => positions[p].order_index # positions[q].order_index

\* an election has two positions
C21_TwoPositions ==
    \E p, q \in DOMAIN positions :
        p # q /\ positions[p].election_id = positions[q].election_id

(* ------------------------------------------------------------------ *)
(* admin/routes.py: creating and editing elections                      *)
(* ------------------------------------------------------------------ *)

MaxElections == 2

\* the id the database gives the next Election row
NewElectionId == IF DOMAIN elections = {} THEN 1 ELSE Max(DOMAIN elections) + 1

\* create_election(): POST of the creation form
create_election(name_in, access_code_in, start_time, end_time) ==
    LET name == Strip(name_in)
        access_code == Strip(access_code_in)
        existing_code == \E other \in DOMAIN elections :
                            Lower(elections[other].access_code) = Lower(access_code)
    IN
    /\ IF name = NoStr
       THEN \* 'Name is required.'
            UNCHANGED elections
       ELSE IF access_code = NoStr
       THEN \* 'Election access code is required.'
            UNCHANGED elections
       ELSE IF existing_code
       THEN \* 'Access code already in use. Choose another.'
            UNCHANGED elections
       ELSE IF start_time # NoTime /\ end_time # NoTime /\ end_time <= start_time
       THEN \* 'End time must be after the start time.'
            UNCHANGED elections
       ELSE elections' = elections @@
               (NewElectionId :> [access_code |-> access_code, is_active |-> TRUE,
                                  start_time |-> start_time, end_time |-> end_time])
    /\ UNCHANGED <<setupVars, invitations, nextInvId, votes, settingsRow, now, session, req, ballots>>

ElectionNameInputs == {NoStr, <<"N">>}

\* what the admin may type as access code in the two election forms
ElectionCodeInputs == {Code1, <<"e", "1">>, <<" ", "b", "2", " ">>, NoStr}

CreateElection ==
    \E name \in ElectionNameInputs, c \in ElectionCodeInputs,
       st \in TimeInputs, en \in TimeInputs :
        /\ Cardinality(DOMAIN elections) < MaxElections
        /\ create_election(name, c, st, en)

EditElection ==
    \E e \in DOMAIN elections, c \in ElectionCodeInputs, a \in BOOLEAN,
       st \in TimeInputs, en \in TimeInputs :
        edit_election(e, c, a, st, en)

NextElections ==
    \/ CreateElection
    \/ EditElection

SpecElections == Init /\ [][NextElections]_vars

\* C22: no two elections, active or not, have access codes that are equal
\* ignoring case; a creation or an edit with a code that another election
\* has, ignoring case, changes no election.
C22_AccessCodesUnique ==
    /\ [](\A e1, e2 \in DOMAIN elections :
            e1 # e2 => Lower(elections[e1].access_code) # Lower(elections[e2].access_code))
    /\ [][elections' # elections =>
            \A c \in ElectionCodeInputs, st \in TimeInputs, en \in TimeInputs :
               /\ ((\E other \in DOMAIN elections :
                       Lower(elections[other].access_code) = Lower(Strip(c)))
                     => ~create_election(<<"N">>, c, st, en))
               /\ \A e \in DOMAIN elections :
                     (\E other \in DOMAIN elections \ {e} :
                         Lower(elections[other].access_code) = Lower(Strip(c)))
                     => \A a \in BOOLEAN : ~edit_election(e, c, a, st, en)]_vars

\* a second election exists, one inactive, and the first was given another
\* spelling of its own code
C22_RespelledOwnCode ==
    /\ Cardinality(DOMAIN elections) = 2
    /\ elections[1].access_code = <<"e", "1">>
    /\ \E e \in DOMAIN elections : ~elections[e].is_active

\* C23: every election with both start_time and end_time has
\* end_time > start_time; a creation or an edit with end_time <= start_time
\* changes no election.
C23_WindowIsOrdered ==
    /\ [](\A e \in DOMAIN elections :
            (elections[e].start_time # NoTime /\ elections[e].end_time # NoTime)
            => elections[e].end_time > elections[e].start_time)
    /\ [][elections' # elections =>
            \A c \in ElectionCodeInputs, st \in 1..MaxNow, en \in 1..MaxNow :
               en <= st =>
                  /\ ~create_election(<<"N">>, c, st, en)
                  /\ \A e \in DOMAIN elections, a \in BOOLEAN :
                        ~edit_election(e, c, a, st, en)]_vars

\* a created election and an edited one both have a two-sided window
C23_TwoWindows ==
    /\ Cardinality(DOMAIN elections) = 2
    /\ \A e \in DOMAIN elections :
          elections[e].start_time # NoTime /\ elections[e].end_time # NoTime

\* C24: is_open is true exactly when the election is active, its start_time
\* is unset or not after now, and its end_time is unset or not before now;
\* now = start_time and now = end_time are open. It is a function of now and
\* the stored fields alone.
C24_OpenExactlyInWindow ==
    \A e \in DOMAIN elections :
       \A t \in 0..MaxNow :
          is_open(elections[e], t)
            <=> /\ elections[e].is_active
                /\ (elections[e].start_time = NoTime \/ elections[e].start_time <= t)
                /\ (elections[e].end_time = NoTime \/ t <= elections[e].end_time)

\* the clock stands on the last instant of a two-sided window, and a ballot
\* was taken
C24_AtTheEnd ==
    \E e \in DOMAIN elections :
        /\ elections[e].start_time # NoTime
        /\ elections[e].end_time = now
        /\ is_open(elections[e], now)
        /\ \E i \in DOMAIN invitations : invitations[i].used /\ invitations[i].used_at = now

(* ------------------------------------------------------------------ *)
(* email_utils.py: dispatch of a mail, and what the caller learns of it *)
(* ------------------------------------------------------------------ *)

\* what the SMTP server does with the message
SmtpOutcomes == {"accepted", "refused"}

\* what send_email itself does: it hands the message over (to a thread, or
\* to _send_email_sync directly), or it raises before that
DispatchOutcomes == {"dispatched", "raised"}

\* _send_email_sync: an exception of smtplib is caught and logged, the
\* function returns None either way
_send_email_sync(smtp) ==
    [raised |-> FALSE, delivered |-> (smtp = "accepted")]

\* send_email: in a thread or inline, the caller sees only an exception of
\* send_email itself
send_email(dispatch, smtp) ==
    IF dispatch = "raised" THEN [raised |-> TRUE, delivered |-> FALSE]
    ELSE _send_email_sync(smtp)

\* _send_invite_email: True unless send_email raised
_send_invite_email(dispatch, smtp) == ~send_email(dispatch, smtp).raised

\* _send_reminder_email: True unless send_email raised
_send_reminder_email(dispatch, smtp) == ~send_email(dispatch, smtp).raised

\* send_results_link(): mails the public link to every invitee with an email;
\* published is results_public and results_slug of the election
send_results_link(election_id, published) ==
    LET recipients == {i \in InvitationsOf(invitations, election_id) :
                         invitations[i].email # NoStr}
    IN
    /\ election_id \in DOMAIN elections
    /\ IF ~published
       THEN \* 'Publish the results link before sending.'
            UNCHANGED settingsRow
       ELSE IF recipients = {}
       THEN \* 'No voter emails available to notify.'
            UNCHANGED settingsRow
       ELSE settingsRow' = TRUE
    /\ UNCHANGED <<setupVars, elections, invitations, nextInvId, votes, now, session, req, ballots>>

MailSingle ==
    \E i \in DOMAIN invitations, dispatch \in DispatchOutcomes, smtp \in SmtpOutcomes :
        send_single_invitation(i, _send_invite_email(dispatch, smtp))

MailSingleReminder ==
    \E i \in DOMAIN invitations, dispatch \in DispatchOutcomes, smtp \in SmtpOutcomes :
        send_single_reminder(i, _send_reminder_email(dispatch, smtp))

MailInvitee ==
    \E e \in DOMAIN elections, n \in NameInputs, m \in EmailInputs, send_now \in BOOLEAN,
       dispatch \in DispatchOutcomes, smtp \in SmtpOutcomes :
        /\ nextInvId <= MaxInv
        /\ add_invitee(e, n, m, send_now, _send_invite_email(dispatch, smtp))

MailResults ==
    \E e \in DOMAIN elections, published \in BOOLEAN : send_results_link(e, published)

InitMail ==
    /\ OneElection
    /\ invitations = (1 :> IssueKey(NewInvitation(1, NoStr, EmailA), Key1))
    /\ nextInvId = 2
    /\ InitRest

NextMail ==
    \/ MailSingle
    \/ MailSingleReminder
    \/ MailInvitee
    \/ SendAll
    \/ SendReminders
    \/ MailResults
    \/ VerifyBy({1})
    \/ SubmitBy({1})

SpecMail == InitMail /\ [][NextMail]_vars

\* C25: a failed delivery of the invitation mail gives the caller a false
\* result, so a request whose mail was not delivered leaves sent_at of the
\* invitation as it was.
C25_SentAtOnlyWhenDelivered ==
    [][\A i \in DOMAIN invitations, dispatch \in DispatchOutcomes, smtp \in SmtpOutcomes :
          ( /\ ~send_email(dispatch, smtp).delivered
            /\ send_single_invitation(i, _send_invite_email(dispatch, smtp)) )
          => invitations'[i].sent_at = invitations[i].sent_at]_vars

\* an invitation is marked as sent
C25_MarkedSent ==
    \E i \in DOMAIN invitations : invitations[i].sent_at # NoTime

\* invitation i is still there after the step, with the same used flag
StillThere(i) ==
    /\ i \in DOMAIN invitations'
    /\ invitations'[i].used = invitations[i].used

\* invitation i is still there after the step, with the same key hash and
\* the same used flag
Untouched(i) ==
    /\ StillThere(i)
    /\ invitations'[i].voting_key_hash = invitations[i].voting_key_hash

Without(f, gone) == [x \in DOMAIN f \ gone |-> f[x]]

\* a deletion that takes the election's Vote rows along
delete_election_with_votes(election_id) ==
    LET gonePositions == PositionsOf(election_id)
        goneCandidates == {c \in DOMAIN candidates : candidates[c].position_id \in gonePositions}
    IN
    /\ election_id \in DOMAIN elections
    /\ votes' = SelectSeq(votes, LAMBDA v : v.election_id # election_id)
    /\ elections' = Without(elections, {election_id})
    /\ positions' = Without(positions, gonePositions)
    /\ candidates' = Without(candidates, goneCandidates)
    /\ invitations' = Without(invitations, InvitationsOf(invitations, election_id))
    /\ UNCHANGED <<admins, nextInvId, settingsRow, now, session, req, ballots>>

\* delete_election(): db.session.delete(election) cascades to positions,
\* candidates and invitations. Vote rows are not part of the cascade: the
\* unit of work sets their election_id to NULL, the NOT NULL column refuses
\* it, and the request ends with the error page and a rollback.
delete_election(election_id) ==
    LET gonePositions == PositionsOf(election_id)
        goneCandidates == {c \in DOMAIN candidates : candidates[c].position_id \in gonePositions}
    IN
    /\ election_id \in DOMAIN elections
    /\ IF \E n \in DOMAIN votes : votes[n].election_id = election_id
       THEN \* 'Database error. Please retry.'
            UNCHANGED <<elections, positions, candidates, invitations>>
       ELSE /\ elections' = Without(elections, {election_id})
            /\ positions' = Without(positions, gonePositions)
            /\ candidates' = Without(candidates, goneCandidates)
            /\ invitations' = Without(invitations, InvitationsOf(invitations, election_id))
    /\ UNCHANGED <<admins, nextInvId, votes, settingsRow, now, session, req, ballots>>

DeleteElection == \E e \in DOMAIN elections : delete_election(e)

NextVotes ==
    \/ VerifyBy({1})
    \/ SubmitBy({1})
    \/ DeleteElection
    \/ DeleteInvitation
    \/ SendSingle
    \/ SetActive

SpecVotes == InitCodes /\ [][NextVotes]_vars

\* C27: Vote rows are insert-only: every step keeps the rows there are, as
\* they are; rows are added only by a submit_ballot that passed its checks;
\* so no candidate's count ever goes down.
C27_VotesInsertOnly ==
    /\ [][/\ Len(votes') >= Len(votes)
          /\ SubSeq(votes', 1, Len(votes)) = votes]_vars
    /\ [][votes' # votes =>
            \E s \in Sessions, storage \in Stored :
               /\ SubmitCheck(session[s]) = "ok"
               /\ \E form \in Forms(session[s].election_id) : submit_ballot(s, form, storage)]_vars
    /\ [][\A c \in DOMAIN candidates :
            \A p \in DOMAIN positions, e \in DOMAIN elections :
               VoteCount(votes', e, p, c) >= VoteCount(votes, e, p, c)]_vars

\* an election was deleted, and the other one keeps its votes
C27_DeletedBesideVotes ==
    /\ Cardinality(DOMAIN elections) = 1
    /\ votes # << >>

-----------------------------------------------------------------------------
(* public/routes.py: the session between vote() and submit_ballot()          *)

\* the session of browser s lacks election_id or invitation_id
SessionUnbound(s) ==
    session[s].election_id = NoId \/ session[s].invitation_id = NoId

\* the session of browser s names an invitation whose row is stored as used
SessionSpent(s) ==
    /\ ~SessionUnbound(s)
    /\ session[s].invitation_id \in DOMAIN invitations
    /\ invitations[session[s].invitation_id].used

\* the step stores nothing of a ballot
NoBallotWritten ==
    /\ votes' = votes
    /\ ballots' = ballots
    /\ \A i \in DOMAIN invitations :
          i \in DOMAIN invitations' /\ invitations'[i].used = invitations[i].used

\* C28 as stated: a step taken while the session lacks election_id or
\* invitation_id stores nothing; the step that accepts a ballot leaves the
\* session without election_id, invitation_id and voter_name; a step taken
\* from a session whose ballot was accepted stores nothing.
C28_SessionClearedAfterBallot ==
    [][/\ (SessionUnbound(1) \/ SessionSpent(1)) => NoBallotWritten
       /\ ballots' # ballots => session'[1] = EmptySession]_vars

\* C28, amended: a step taken while the session lacks election_id or
\* invitation_id stores nothing; the step that accepts a ballot either leaves
\* the session without election_id, invitation_id and voter_name, or (when
\* record_audit fails after the ballot's commit) leaves it naming the
\* invitation that is now stored as used; in both cases a step taken from that
\* session stores nothing.
C28_SecondSubmitWritesNothing ==
    [][/\ (SessionUnbound(1) \/ SessionSpent(1)) => NoBallotWritten
       /\ ballots' # ballots =>
             \/ session'[1] = EmptySession
             \/ /\ session'[1] = session[1]
                /\ invitations'[session[1].invitation_id].used]_vars

\* a ballot was accepted, the session still names its invitation, and a second
\* submit_ballot from it is answered with "This key was already used."
C28_SpentSessionResubmits ==
    /\ Len(votes) > 0
    /\ SessionSpent(1)
    /\ SubmitCheck(session[1]) = "AlreadyVoted"

-----------------------------------------------------------------------------
(* SpecKeyLoop: _generate_unique_key() as the loop it is. An admin request that
   needs a key enters the loop; every pass draws a candidate from
   generate_6_digit_code() and either goes round again (the candidate is
   reserved, or an invitation of the election accepts it) or returns it to the
   handler, which then runs to its end. The random generator is fair: a pass
   that can return a key is not postponed for ever. *)

\* as many invitations as the generator has values
MaxLoopInv == NumKeys

EmailC == <<"c", "@">>
LoopEmails == {EmailA, EmailB, EmailC}

\* no admin request is running
NoCall == [pc |-> "idle", handler |-> "none", election_id |-> NoId, queue |-> << >>,
           reserved |-> {}, candidate_key |-> NoStr, email |-> NoStr,
           send_now |-> FALSE, invs |-> << >>]

\* add_invitee() up to its call of _generate_unique_key(election), line 786
begin_add_invitee(r, election_id, email_in, send_now) ==
    LET parsed_email == Strip(email_in) IN
    /\ req[r].pc = "idle"
    /\ election_id \in DOMAIN elections
    /\ parsed_email # NoStr
    /\ \E j \in DOMAIN parsed_email : parsed_email[j] = "@"
    /\ ~EmailTaken(invitations, election_id, Lower(parsed_email), NoId)
    /\ req' = [req EXCEPT ![r] = [NoCall EXCEPT !.pc = "loop", !.handler = "add_invitee",
                                                !.election_id = election_id,
                                                !.email = parsed_email,
                                                !.send_now = send_now,
                                                !.invs = invitations]]
    /\ UNCHANGED <<setupVars, elections, invitations, nextInvId, votes, settingsRow, now,
                   session, ballots>>

\* send_single_invitation() up to its call of _generate_unique_key(election), line 812
begin_send_single_invitation(r, invitation_id) ==
    /\ req[r].pc = "idle"
    /\ invitation_id \in DOMAIN invitations
    /\ invitations[invitation_id].email # NoStr
    /\ req' = [req EXCEPT ![r] = [NoCall EXCEPT !.pc = "loop",
                                    !.handler = "send_single_invitation",
                                    !.election_id = invitations[invitation_id].election_id,
                                    !.queue = <<invitation_id>>,
                                    !.invs = invitations]]
    /\ UNCHANGED <<setupVars, elections, invitations, nextInvId, votes, settingsRow, now,
                   session, ballots>>

\* send_invitations() up to its first call of _generate_unique_key(election, reserved),
\* line 869
begin_send_invitations(r, election_id) ==
    LET unsent == {i \in InvitationsOf(invitations, election_id) :
                     invitations[i].sent_at = NoTime /\ invitations[i].email # NoStr}
    IN
    /\ req[r].pc = "idle"
    /\ election_id \in DOMAIN elections
    /\ unsent # {}
    /\ req' = [req EXCEPT ![r] = [NoCall EXCEPT !.pc = "loop", !.handler = "send_invitations",
                                                !.election_id = election_id,
                                                !.queue = Ascending(unsent),
                                                !.invs = invitations]]
    /\ UNCHANGED <<setupVars, elections, invitations, nextInvId, votes, settingsRow, now,
                   session, ballots>>

\* one pass of the loop that ends in `continue` or with collision = True
loop_again(r, candidate_key) ==
    /\ req[r].pc = "loop"
    /\ candidate_key \in generate_6_digit_code
    /\ candidate_key \notin _generate_unique_key(req[r].invs, req[r].election_id,
                                                 req[r].reserved)
    /\ req' = [req EXCEPT ![r].candidate_key = candidate_key]
    /\ UNCHANGED <<setupVars, elections, invitations, nextInvId, votes, settingsRow, now,
                   session, ballots>>

\* the pass that returns candidate_key, and the handler from there to its end
\* (send_invitations: to its next call of _generate_unique_key)
loop_return(r, candidate_key, mail_ok) ==
    /\ req[r].pc = "loop"
    /\ candidate_key \in _generate_unique_key(req[r].invs, req[r].election_id,
                                              req[r].reserved)
    /\ CASE req[r].handler = "add_invitee" ->
              LET invitation == IssueKey(NewInvitation(req[r].election_id, NoStr,
                                                       req[r].email), candidate_key)
                  sent == IF req[r].send_now /\ mail_ok
                          THEN [invitation EXCEPT !.sent_at = now] ELSE invitation
              IN  /\ invitations' = invitations @@ (nextInvId :> sent)
                  /\ nextInvId' = nextInvId + 1
                  /\ settingsRow' = (settingsRow \/ req[r].send_now)
                  /\ req' = [req EXCEPT ![r] = NoCall]
         [] req[r].handler = "send_single_invitation" ->
              LET invitation_id == Head(req[r].queue)
                  rotated == IssueKey(invitations[invitation_id], candidate_key)
              IN  /\ settingsRow' = TRUE
                  /\ invitations' =
                        IF mail_ok
                        THEN [invitations EXCEPT ![invitation_id] =
                                [rotated EXCEPT !.sent_at = now, !.reminder_sent_at = NoTime]]
                        ELSE IF settingsRow THEN invitations
                        ELSE [invitations EXCEPT ![invitation_id] = rotated]
                  /\ nextInvId' = nextInvId
                  /\ req' = [req EXCEPT ![r] = NoCall]
         [] req[r].handler = "send_invitations" ->
              LET invitation_id == Head(req[r].queue)
                  rotated == IssueKey(req[r].invs[invitation_id], candidate_key)
                  seen == [req[r].invs EXCEPT ![invitation_id] =
                             IF mail_ok THEN [rotated EXCEPT !.sent_at = now] ELSE rotated]
              IN  /\ settingsRow' = TRUE
                  /\ nextInvId' = nextInvId
                  /\ IF Tail(req[r].queue) = << >>
                     THEN \* db.session.commit()
                          /\ invitations' = seen
                          /\ req' = [req EXCEPT ![r] = NoCall]
                     ELSE /\ invitations' = invitations
                          /\ req' = [req EXCEPT ![r].invs = seen,
                                                ![r].queue = Tail(@),
                                                ![r].reserved = @ \cup {candidate_key},
                                                ![r].candidate_key = NoStr]
    /\ UNCHANGED <<setupVars, elections, votes, now, session, ballots>>

BeginAddInvitee ==
    \E e \in DOMAIN elections, m \in LoopEmails, send_now \in BOOLEAN :
        /\ nextInvId <= MaxLoopInv
        /\ begin_add_invitee(1, e, m, send_now)

BeginSendSingle == \E i \in DOMAIN invitations : begin_send_single_invitation(1, i)

BeginSendInvitations == \E e \in DOMAIN elections : begin_send_invitations(1, e)

LoopAgain == \E k \in generate_6_digit_code : loop_again(1, k)

LoopReturn == \E k \in generate_6_digit_code, mail_ok \in BOOLEAN : loop_return(1, k, mail_ok)

InitKeyLoop ==
    /\ OneElection
    /\ invitations = << >>
    /\ nextInvId = 1
    /\ admins = FirstAdmin
    /\ votes = << >>
    /\ settingsRow = FALSE
    /\ now = 0
    /\ session = [s \in Sessions |-> EmptySession]
    /\ req = [r \in Reqs |-> NoCall]
    /\ ballots = << >>

NextKeyLoop ==
    \/ BeginAddInvitee
    \/ BeginSendSingle
    \/ BeginSendInvitations
    \/ LoopAgain
    \/ LoopReturn

SpecKeyLoop == InitKeyLoop /\ [][NextKeyLoop]_vars /\ WF_vars(LoopReturn)

\* C29: every call of _generate_unique_key returns: a request that has entered
\* the loop leaves it, whatever invitations exist and whatever is reserved,
\* when the random generator is fair.
C29_EveryCallReturns ==
    (req[1].pc = "loop") ~> (req[1].pc = "idle")

\* a request is in the loop while every value of the generator is reserved or
\* the key of an invitation of the election
C29_NoKeyLeft ==
    /\ req[1].pc = "loop"
    /\ _generate_unique_key(req[1].invs, req[1].election_id, req[1].reserved) = {}

-----------------------------------------------------------------------------
(* email_utils.py: the shape of generate_6_digit_code()                      *)

\* the value of a decimal digit character
DigitValue(c) == (CHOOSE d \in DOMAIN Digits : Digits[d] = c) - 1

\* str.isdigit() on the model's characters
IsDigits(s) == s # << >> /\ \A j \in DOMAIN s : \E d \in DOMAIN Digits : Digits[d] = s[j]

\* int(s) of a string of decimal digits
RECURSIVE ParseDecimal(_)
ParseDecimal(s) ==
    IF s = << >> THEN 0
    ELSE 10 * ParseDecimal(SubSeq(s, 1, Len(s) - 1)) + DigitValue(s[Len(s)])

\* C30: generate_6_digit_code returns exactly 6 decimal digits, zero-padded:
\* every value it formats, and every plaintext key a handler has issued, has
\* length 6, consists of decimal digits, and reads back as the number drawn,
\* which lies in 0..999999.
C30_SixDecimalDigits ==
    /\ \A n \in RandInts :
          /\ n \in 0..999999
          /\ Len(Format06d(n)) = 6
          /\ IsDigits(Format06d(n))
          /\ ParseDecimal(Format06d(n)) = n
    /\ \A i \in DOMAIN invitations :
          invitations[i].last_generated_key # NoStr =>
              /\ Len(invitations[i].last_generated_key) = 6
              /\ IsDigits(invitations[i].last_generated_key)
              /\ ParseDecimal(invitations[i].last_generated_key) \in 0..999999

\* the keys 000000 and 042913, which need padding, were issued in one election
C30_PaddedKeysIssued ==
    \E i, j \in DOMAIN invitations :
        /\ invitations[i].election_id = invitations[j].election_id
        /\ invitations[i].last_generated_key = <<"0", "0", "0", "0", "0", "0">>
        /\ invitations[j].last_generated_key = <<"0", "4", "2", "9", "1", "3">>

-----------------------------------------------------------------------------
(* SpecCandidates: the admin adds candidates to the positions of an election
   and reorders them (admin/routes.py gives every Candidate row an
   order_index, the column of migration 7f2c3b9e1a10); the results page
   summarizes the election. *)

MaxCandidates == 3

\* the id the database gives the next Candidate row
NewCandidateId == IF DOMAIN candidates = {} THEN 1 ELSE Max(DOMAIN candidates) + 1

\* (max(Candidate.order_index) of the position or 0) + 1
NextCandidateOrderIndex(position_id) ==
    LET taken == {candidates[c].order_index :
                    c \in {d \in DOMAIN candidates : candidates[d].position_id = position_id}}
    IN  (IF taken = {} THEN 0 ELSE Max(taken)) + 1

candidateVarsUnchanged ==
    UNCHANGED <<positions, admins, elections, invitations, nextInvId, votes, settingsRow, now,
                session, req, ballots>>

\* create_candidate(): POST with the form's name
create_candidate(position_id, name_in) ==
    LET name == Strip(name_in) IN
    /\ position_id \in DOMAIN positions
    /\ IF name = NoStr
       THEN \* 'Name is required.'
            UNCHANGED candidates
       ELSE candidates' = candidates @@
               (NewCandidateId :> [position_id |-> position_id,
                                   order_index |-> NextCandidateOrderIndex(position_id)])
    /\ candidateVarsUnchanged

\* reorder_candidates(): POST with the JSON list `order` of candidate ids
reorder_candidates(position_id, order) ==
    LET listed == {c \in DOMAIN candidates :
                     /\ candidates[c].position_id = position_id
                     /\ \E n \in DOMAIN order : order[n] = c}
    IN
    /\ IF order = << >>
       THEN \* 400 'Missing order list.'
            UNCHANGED candidates
       ELSE IF Cardinality(listed) # Len(order)
       THEN \* 400 'Invalid candidate list.'
            UNCHANGED candidates
       ELSE candidates' =
               [c \in DOMAIN candidates |->
                   IF c \in listed
                   THEN [candidates[c] EXCEPT
                           !.order_index = (CHOOSE n \in DOMAIN order : order[n] = c) - 1]
                   ELSE candidates[c]]
    /\ candidateVarsUnchanged

CandidateOrderInputs == UNION {[1..n -> 1..MaxCandidates] : n \in 1..MaxCandidates}

CreateCandidate ==
    \E p \in DOMAIN positions, name \in PositionNameInputs :
        /\ Cardinality(DOMAIN candidates) < MaxCandidates
        /\ create_candidate(p, name)

ReorderCandidates ==
    \E p \in DOMAIN positions, order \in CandidateOrderInputs \cup {<< >>} :
        reorder_candidates(p, order)

InitCandidates ==
    /\ elections = (1 :> OpenElection(Code1))
    /\ positions = (1 :> [election_id |-> 1, order_index |-> 0])
                   @@ (2 :> [election_id |-> 1, order_index |-> 1])
    /\ candidates = << >>
    /\ invitations = << >>
    /\ nextInvId = 1
    /\ InitRest

NextCandidates ==
    \/ CreateCandidate
    \/ ReorderCandidates
    \/ MovePosition

SpecCandidates == InitCandidates /\ [][NextCandidates]_vars

\* C31: summarize_results has one entry per position of the election, in
\* ascending position order index, and each entry lists the candidates of its
\* position, each once, in ascending candidate order index.
C31_SummaryInOrder ==
    \A e \in DOMAIN elections :
        LET summary == summarize_results(e) IN
        /\ Len(summary) = Cardinality(PositionsOf(e))
        /\ {summary[n].position : n \in DOMAIN summary} = PositionsOf(e)
        /\ \A m, n \in DOMAIN summary :
              m < n => positions[summary[m].position].order_index
                          <= positions[summary[n].position].order_index
        /\ \A n \in DOMAIN summary :
              LET listed == summary[n].candidates IN
              /\ {listed[a].candidate : a \in DOMAIN listed}
                    = {c \in DOMAIN candidates : candidates[c].position_id = summary[n].position}
              /\ \A a, b \in DOMAIN listed :
                    a < b => /\ listed[a].candidate # listed[b].candidate
                             /\ candidates[listed[a].candidate].order_index
                                   <= candidates[listed[b].candidate].order_index

\* two candidates of one position were reordered, the later one first, and
\* the positions were swapped
C31_ReorderedCandidates ==
    /\ positions[2].order_index < positions[1].order_index
    /\ \E c, d \in DOMAIN candidates :
          /\ c < d
          /\ candidates[c].position_id = candidates[d].position_id
          /\ candidates[d].order_index < candidates[c].order_index

-----------------------------------------------------------------------------
(* public/routes.py: vote() reads the store and writes the session          *)

\* browser s leaves the step bound to an invitation it was not bound to
NewlyBound(s) ==
    /\ session'[s] # session[s]
    /\ session'[s].invitation_id # NoId

\* C32: key verification is read-only with respect to ballots. The step in
\* which a browser becomes bound to an invitation changes no invitation row
\* (used, used_at, key hash) and adds no Vote row; and in every state the key
\* of an unused invitation of an open election still verifies, however many
\* sessions are already bound to that invitation.
C32_VerifyIsReadOnly ==
    /\ [](\A i \in DOMAIN invitations :
            (/\ ~invitations[i].used
             /\ invitations[i].voting_key_hash.digest # NoStr
             /\ is_open(elections[invitations[i].election_id], now))
            => VerifyOutcome(elections[invitations[i].election_id].access_code,
                             invitations[i].voting_key_hash.digest).status = "ok")
    /\ [][(\E s \in Sessions : NewlyBound(s)) =>
             /\ votes' = votes
             /\ ballots' = ballots
             /\ invitations' = invitations]_vars

\* both browsers verified the same key and no ballot was submitted yet
C32_VerifiedInTwoSessions ==
    /\ session[1].invitation_id # NoId
    /\ session[2].invitation_id = session[1].invitation_id
    /\ session[1].invitation_id \in DOMAIN invitations
    /\ ~invitations[session[1].invitation_id].used
    /\ votes = << >>

-----------------------------------------------------------------------------
(* SpecRefs: two elections, the first with two positions; a browser submits
   forms naming any candidate for any position of its election, while the
   admin deactivates and deletes elections. *)

InitRefs ==
    /\ elections = (1 :> OpenElection(Code1)) @@ (2 :> OpenElection(Code2))
    /\ positions = (1 :> [election_id |-> 1, order_index |-> 0])
                   @@ (2 :> [election_id |-> 1, order_index |-> 1])
                   @@ (3 :> [election_id |-> 2, order_index |-> 0])
    /\ candidates = (1 :> [position_id |-> 1]) @@ (2 :> [position_id |-> 2])
                    @@ (3 :> [position_id |-> 3])
    /\ invitations = (1 :> [IssueKey(NewInvitation(1, NoStr, EmailA), Key1)
                              EXCEPT !.sent_at = 0])
                     @@ (2 :> [IssueKey(NewInvitation(2, NoStr, EmailA), Key2)
                                 EXCEPT !.sent_at = 0])
    /\ nextInvId = 3
    /\ InitRest

NextRefs ==
    \/ VerifyBy({1})
    \/ SubmitBy({1})
    \/ SetActive
    \/ DeleteElection

SpecRefs == InitRefs /\ [][NextRefs]_vars

\* C33: every Vote row is referentially consistent: its election, position
\* and candidate exist, the candidate belongs to the position and the position
\* to the election, whatever candidate ids the submitted forms name.
C33_VotesAreConsistent ==
    \A n \in DOMAIN votes :
        /\ votes[n].election_id \in DOMAIN elections
        /\ votes[n].position_id \in DOMAIN positions
        /\ votes[n].candidate_id \in DOMAIN candidates
        /\ candidates[votes[n].candidate_id].position_id = votes[n].position_id
        /\ positions[votes[n].position_id].election_id = votes[n].election_id

\* both elections took a ballot, and the ballot of the election with two
\* positions left a single Vote row
C33_PartialBallotStored ==
    /\ \A i \in {1, 2} : i \in DOMAIN invitations /\ invitations[i].used
    /\ Cardinality({n \in DOMAIN votes : votes[n].election_id = 1}) = 1
    /\ Cardinality({n \in DOMAIN votes : votes[n].election_id = 2}) = 1

-----------------------------------------------------------------------------
(* SpecCount: ballots against used invitations. One election with two
   positions and two invitations; the admin rotates keys and switches the
   election on and off but deletes nothing; one request runs at a time. *)

InitCount ==
    /\ elections = (1 :> OpenElection(Code1))
    /\ positions = (1 :> [election_id |-> 1, order_index |-> 0])
                   @@ (2 :> [election_id |-> 1, order_index |-> 1])
    /\ candidates = (1 :> [position_id |-> 1]) @@ (2 :> [position_id |-> 2])
    /\ invitations = (1 :> [IssueKey(NewInvitation(1, NoStr, EmailA), Key1)
                              EXCEPT !.sent_at = 0])
                     @@ (2 :> [IssueKey(NewInvitation(1, NoStr, EmailB), Key2)
                                 EXCEPT !.sent_at = 0])
    /\ nextInvId = 3
    /\ InitRest

NextCount ==
    \/ VerifyBy({1})
    \/ SubmitBy({1})
    \/ SendSingle
    \/ SetActive

SpecCount == InitCount /\ [][NextCount]_vars

\* the invitations of an election stored with used = true
UsedInvitations(election_id) ==
    {i \in InvitationsOf(invitations, election_id) : invitations[i].used}

\* C34: an accepted ballot adds at most one Vote row per position, so for
\* every position the number of its Vote rows, and the total_votes of its
\* summary entry, never exceed the number of used invitations of its election
\* (requests one at a time, no invitation deleted).
C34_VotesBoundedByUsed ==
    \A p \in DOMAIN positions :
          /\ Cardinality({n \in DOMAIN votes : votes[n].position_id = p})
                <= Cardinality(UsedInvitations(positions[p].election_id))
          /\ PositionSummary(votes, positions[p].election_id, p).total_votes
                <= Cardinality(UsedInvitations(positions[p].election_id))

\* two invitations of the election with two positions are used and each
\* position has two Vote rows
C34_TwoBallotsTwoRowsEach ==
    /\ Cardinality(UsedInvitations(1)) = 2
    /\ \A p \in PositionsOf(1) :
          Cardinality({n \in DOMAIN votes : votes[n].position_id = p}) = 2

-----------------------------------------------------------------------------
(* public/routes.py: the election and the invitation a session names        *)

\* C35: the SessionMismatch branch of submit_ballot is not reached: in every
\* state the invitation a session names, while its row exists, belongs to the
\* election the session names, and submit_ballot's checks never end in
\* SessionMismatch.
C35_SessionNamesOneElection ==
    \A s \in Sessions :
        /\ SubmitCheck(session[s]) # "SessionMismatch"
        /\ (session[s].invitation_id = NoId) = (session[s].election_id = NoId)
        /\ session[s].invitation_id \in DOMAIN invitations =>
              invitations[session[s].invitation_id].election_id = session[s].election_id

\* the browser voted in the first election and is now bound to the invitation
\* of the second
C35_BoundToSecondElection ==
    /\ 1 \in DOMAIN invitations /\ invitations[1].used
    /\ session[1].election_id = 2
    /\ session[1].invitation_id \in DOMAIN invitations
    /\ invitations[session[1].invitation_id].election_id = 2

-----------------------------------------------------------------------------
(* SpecRotate: the voter only ever types the key of the first mail, while the
   admin resends the invitation (each resend rotates the key) and switches
   the election on and off, and the clock runs. *)

VerifyFirstKey == \E c \in CodeInputs : vote(1, c, Key1)

NextRotate ==
    \/ VerifyFirstKey
    \/ SubmitBy({1})
    \/ SendSingle
    \/ SetActive
    \/ Tick

SpecRotate == InitWindow /\ [][NextRotate]_vars

\* C36: submit_ballot does not depend on the invitation's current key. A step
\* that changes an invitation's key hash leaves the row in place, unused as
\* before, and leaves every session bound as it was; a session bound to an
\* unused invitation of its open election passes submit_ballot's checks
\* whatever the key now is; and no invitation gets more than one ballot.
C36_RotationKeepsSessions ==
    /\ [](\A s \in Sessions :
            (/\ session[s].invitation_id \in DOMAIN invitations
             /\ session[s].election_id \in DOMAIN elections
             /\ invitations[session[s].invitation_id].election_id = session[s].election_id
             /\ ~invitations[session[s].invitation_id].used
             /\ is_open(elections[session[s].election_id], now))
            => SubmitCheck(session[s]) = "ok")
    /\ [](\A k \in DOMAIN ballots : ballots[k] = 1)
    /\ [][\A i \in DOMAIN invitations :
            (i \notin DOMAIN invitations'
               \/ invitations'[i].voting_key_hash # invitations[i].voting_key_hash)
            => /\ session' = session
               /\ i \in DOMAIN invitations'
               /\ invitations'[i].used = invitations[i].used]_vars

\* a ballot was accepted from the browser that had typed the first key, for
\* the invitation whose hash by then accepted another key
C36_BallotAfterRotation ==
    \E k \in DOMAIN ballots :
        /\ k.invitation_id = 1
        /\ k.key # Key1
        /\ invitations[1].used
        /\ Len(votes) > 0

-----------------------------------------------------------------------------
(* admin/routes.py: delete_invitation() against the voter flow               *)

\* browser s names an invitation whose row is gone
SessionOrphaned(s) ==
    /\ session[s].invitation_id # NoId
    /\ session[s].invitation_id \notin DOMAIN invitations

-----------------------------------------------------------------------------
(* SpecTwoRuns: ballot secrecy by self-composition. Two ballots ballot_a and
   ballot_b are fixed at the start. In the first run invitation 1 submits
   ballot_a and invitation 2 submits ballot_b, in any order and at any time;
   the Vote rows of that run are then set aside and the store starts again
   from the same initial rows; in the second run invitation 1 submits
   ballot_b and invitation 2 submits ballot_a. *)

TwoInvitations ==
    (1 :> [IssueKey(NewInvitation(1, NoStr, EmailA), Key1) EXCEPT !.sent_at = 0])
    @@ (2 :> [IssueKey(NewInvitation(1, NoStr, EmailB), Key2) EXCEPT !.sent_at = 0])

InitTwoRuns ==
    /\ elections = (1 :> OpenElection(Code1))
    /\ positions = (1 :> [election_id |-> 1, order_index |-> 0])
                   @@ (2 :> [election_id |-> 1, order_index |-> 1])
    /\ candidates = (1 :> [position_id |-> 1]) @@ (2 :> [position_id |-> 1])
                    @@ (3 :> [position_id |-> 2])
    /\ invitations = TwoInvitations
    /\ nextInvId = 3
    /\ admins = FirstAdmin
    /\ votes = << >>
    /\ settingsRow = FALSE
    /\ now = 0
    /\ session = [s \in Sessions |-> EmptySession]
    /\ ballots = << >>
    /\ \E ballot_a, ballot_b \in [{1, 2} -> {NoId, 1, 2, 3}] :
          req = [r \in Reqs |->
                   IF r = 1 THEN [run |-> "first", rows |-> << >>]
                   ELSE [ballot_a |-> ballot_a, ballot_b |-> ballot_b]]

\* the ballot the run gives to an invitation
AssignedBallot(invitation_id) ==
    IF (invitation_id = 1) = (req[1].run = "first") THEN req[2].ballot_a ELSE req[2].ballot_b

SubmitAssigned ==
    \E storage \in StorageOutcomes :
        /\ session[1].invitation_id # NoId
        /\ submit_ballot(1, AssignedBallot(session[1].invitation_id), storage)

\* the end of the first run: its Vote rows are kept aside and the second run
\* starts from the initial store
SecondRun ==
    /\ req[1].run = "first"
    /\ \A i \in DOMAIN invitations : invitations[i].used
    /\ req' = [req EXCEPT ![1] = [run |-> "second", rows |-> votes]]
    /\ votes' = << >>
    /\ invitations' = TwoInvitations
    /\ session' = [s \in Sessions |-> EmptySession]
    /\ ballots' = << >>
    /\ now' = 0
    /\ UNCHANGED <<setupVars, elections, nextInvId, settingsRow>>

NextTwoRuns ==
    \/ VerifyBy({1})
    \/ SubmitAssigned
    \/ Tick
    \/ SecondRun

SpecTwoRuns == InitTwoRuns /\ [][NextTwoRuns]_vars

\* a Vote row without its timestamp
Untimed(row) == [row EXCEPT !.cast_at = NoTime]

\* how many rows of vs equal row up to the timestamp
Copies(vs, row) == Cardinality({n \in DOMAIN vs : Untimed(vs[n]) = Untimed(row)})

\* C38: ballot secrecy as a two-run property. When both runs are complete,
\* the run in which invitation 1 submitted ballot_a and invitation 2 ballot_b
\* and the run in which they submitted them the other way round hold the same
\* Vote rows, up to row ids and timestamps, and give the same summary.
C38_RunsAreIndistinguishable ==
    (req[1].run = "second" /\ \A i \in DOMAIN invitations : invitations[i].used) =>
        /\ Len(votes) = Len(req[1].rows)
        /\ \A n \in DOMAIN votes : Copies(votes, votes[n]) = Copies(req[1].rows, votes[n])
        /\ \A n \in DOMAIN req[1].rows :
              Copies(votes, req[1].rows[n]) = Copies(req[1].rows, req[1].rows[n])
        /\ SummaryOf(votes, 1) = SummaryOf(req[1].rows, 1)

\* both runs are complete, the two ballots differ and both left Vote rows
C38_TwoDifferentBallots ==
    /\ req[1].run = "second"
    /\ \A i \in DOMAIN invitations : invitations[i].used
    /\ BallotRows(1, <<1, 2>>, req[2].ballot_a, 0) # << >>
    /\ BallotRows(1, <<1, 2>>, req[2].ballot_b, 0) # << >>
    /\ BallotRows(1, <<1, 2>>, req[2].ballot_a, 0) # BallotRows(1, <<1, 2>>, req[2].ballot_b, 0)
    /\ Len(votes) >= 2

-----------------------------------------------------------------------------
(* SpecAdmins: the admin accounts. Browsers log in and out of the admin
   console and post update_admin and delete_admin requests, one at a time.
   In this specification a session holds the cookie's admin_id. *)

MaxAdmins == 3

NoAdminSession == [admin_id |-> NoId]

AdminNames == <<(<<"a">>), (<<"b">>), (<<"c">>), (<<"d">>)>>

\* the AdminUser rows with is_super_admin set
SuperAdmins(rows) == {a \in DOMAIN rows : rows[a].is_super_admin}

\* login_required, then super_admin_required, for the request of browser s
AdminGate(s) ==
    LET admin_id == session[s].admin_id IN
    IF admin_id = NoId THEN "login"
    ELSE IF admin_id \notin DOMAIN admins THEN "stale"
    ELSE IF ~admins[admin_id].is_super_admin THEN "forbidden"
    ELSE "ok"

\* what the decorators leave of the session when they turn the request away
GateRejects(s) ==
    /\ AdminGate(s) # "ok"
    /\ session' = IF AdminGate(s) = "stale"
                  THEN [session EXCEPT ![s] = NoAdminSession] ELSE session
    /\ admins' = admins

adminVarsUnchanged ==
    UNCHANGED <<elections, positions, candidates, invitations, nextInvId, votes,
                settingsRow, now, req, ballots>>

\* login(): POST with a username; password_ok is the result of check_password
login(s, username_in, password_ok) ==
    LET username == Strip(username_in)
        found == {a \in DOMAIN admins : admins[a].username = username}
    IN
    /\ session' = IF found # {} /\ password_ok
                  THEN [session EXCEPT ![s] = [admin_id |-> Min(found)]]
                  ELSE session
    /\ admins' = admins
    /\ adminVarsUnchanged

\* logout(), behind login_required
logout(s) ==
    /\ session' = IF session[s].admin_id = NoId THEN session
                  ELSE [session EXCEPT ![s] = NoAdminSession]
    /\ admins' = admins
    /\ adminVarsUnchanged

\* an update_admin without the count of the other super admins
update_admin_unguarded(s, admin_id, username_in, is_super) ==
    LET username == Strip(username_in) IN
    /\ \/ GateRejects(s)
       \/ /\ AdminGate(s) = "ok"
          /\ session' = session
          /\ IF admin_id \notin DOMAIN admins THEN admins' = admins
             ELSE IF username = NoStr THEN admins' = admins
             ELSE IF \E b \in DOMAIN admins : b # admin_id /\ admins[b].username = username
             THEN admins' = admins
             ELSE admins' = [admins EXCEPT ![admin_id] =
                               [username |-> username, is_super_admin |-> is_super]]
    /\ adminVarsUnchanged

\* update_admin(): POST with username and the is_super_admin checkbox
update_admin(s, admin_id, username_in, is_super) ==
    LET username == Strip(username_in) IN
    /\ \/ GateRejects(s)
       \/ /\ AdminGate(s) = "ok"
          /\ session' = session
          /\ IF admin_id \notin DOMAIN admins
             THEN \* 404
                  admins' = admins
             ELSE IF username = NoStr
             THEN \* 'Username is required.'
                  admins' = admins
             ELSE IF \E b \in DOMAIN admins : b # admin_id /\ admins[b].username = username
             THEN \* 'Username already taken.'
                  admins' = admins
             ELSE IF /\ admins[admin_id].is_super_admin
                     /\ ~is_super
                     /\ SuperAdmins(admins) \ {admin_id} = {}
             THEN \* 'Need at least one super admin.'
                  admins' = admins
             ELSE admins' = [admins EXCEPT ![admin_id] =
                               [username |-> username, is_super_admin |-> is_super]]
    /\ adminVarsUnchanged

\* delete_admin()
delete_admin(s, admin_id) ==
    /\ \/ GateRejects(s)
       \/ /\ AdminGate(s) = "ok"
          /\ session' = session
          /\ IF admin_id \notin DOMAIN admins
             THEN \* 404
                  admins' = admins
             ELSE IF admin_id = session[s].admin_id
             THEN \* 'You cannot delete your own account.'
                  admins' = admins
             ELSE IF /\ admins[admin_id].is_super_admin
                     /\ SuperAdmins(admins) \ {admin_id} = {}
             THEN \* 'Need at least one super admin.'
                  admins' = admins
             ELSE admins' = Without(admins, {admin_id})
    /\ adminVarsUnchanged

UsernameInputs == {NoStr, AdminNames[1], AdminNames[2], AdminNames[4]}

Login == \E s \in Sessions, u \in UsernameInputs, ok \in BOOLEAN : login(s, u, ok)

Logout == \E s \in Sessions : logout(s)

UpdateAdmin ==
    \E s \in Sessions, a \in 1..MaxAdmins, u \in UsernameInputs, is_super \in BOOLEAN :
        update_admin(s, a, u, is_super)

DeleteAdmin == \E s \in Sessions, a \in 1..MaxAdmins : delete_admin(s, a)

\* the accounts at the start: up to MaxAdmins rows with distinct usernames,
\* one of them at least a super admin; nobody is logged in
InitAdmins ==
    /\ OneElection
    /\ invitations = << >>
    /\ nextInvId = 1
    /\ \E n \in 1..MaxAdmins, supers \in SUBSET (1..MaxAdmins) :
          /\ supers \cap 1..n # {}
          /\ admins = [a \in 1..n |-> [username |-> AdminNames[a],
                                       is_super_admin |-> a \in supers]]
    /\ votes = << >>
    /\ settingsRow = FALSE
    /\ now = 0
    /\ session = [s \in Sessions |-> NoAdminSession]
    /\ req = [r \in Reqs |-> IdleReq]
    /\ ballots = << >>

NextAdmins ==
    \/ Login
    \/ Logout
    \/ UpdateAdmin
    \/ DeleteAdmin

SpecAdmins == InitAdmins /\ [][NextAdmins]_vars

\* C39: at least one super admin exists in every state; a step never removes
\* or demotes the only super admin; and delete_admin for the account of the
\* session that posts it changes nothing.
C39_SuperAdminRemains ==
    /\ [](SuperAdmins(admins) # {})
    /\ [][admins' # admins =>
            /\ \A a \in DOMAIN admins :
                  SuperAdmins(admins) = {a} =>
                     (a \in DOMAIN admins' /\ admins'[a].is_super_admin)
            /\ \A s \in Sessions, a \in DOMAIN admins :
                  session[s].admin_id = a => ~delete_admin(s, a)]_vars

\* the only super admin is logged in beside two plain admins, one of them
\* renamed, after the second super admin was demoted
C39_LastSuperAdmin ==
    /\ Cardinality(DOMAIN admins) = 3
    /\ Cardinality(SuperAdmins(admins)) = 1
    /\ \E s \in Sessions : session[s].admin_id \in SuperAdmins(admins)
    /\ \E a \in DOMAIN admins : admins[a].username = AdminNames[4]

====
